---- MODULE Spec2Model ----
(***************************************************************************)
(* The Hall chat surface of grimora (internal/tui/hall.go, input.go): the  *)
(* message window, its seen-ID set and the presence snapshot, the          *)
(* composer and its two autocomplete sub-modes, the text editor core, the  *)
(* hard wrap of the line wrapper and the polling loop, all driven by the   *)
(* messages handled in hallModel.Update.                                   *)
(***************************************************************************)
EXTENDS Integers, Sequences, FiniteSets, TLC

VARIABLES
    messages,        \* hallModel.messages: the window, a sequence of chatMessage
    seenIDs,         \* hallModel.seenIDs: the keys of the map (every value is true)
    presenceLogins,  \* hallModel.presenceLogins: a []string, possibly the nil slice
    presenceCount,   \* hallModel.presenceCount
    myLogin,         \* hallModel.myLogin
    err,             \* hallModel.err
    connected,       \* hallModel.connected
    step,            \* history: the handler that produced this state
    inserted,        \* history: the IDs the merge loop has appended so far
    evicted,         \* history: the IDs of entries the retention cap has removed from the window
    redelivered,     \* history: this merge was handed an ID it had to skip
    lastSnapshot,    \* history: the logins of the last successful presence fetch, if any
    input,           \* hallModel.input: the composition buffer
    mentionActive,   \* hallModel.mentionActive
    mentionQuery,    \* hallModel.mentionQuery
    mentionMatches,  \* hallModel.mentionMatches
    mentionCursor,   \* hallModel.mentionCursor
    projectActive,   \* hallModel.projectActive
    projectQuery,    \* hallModel.projectQuery
    projectMatches,  \* hallModel.projectMatches
    projectCursor,   \* hallModel.projectCursor
    inputFocused,    \* hallModel.inputFocused
    status,          \* hallModel.status
    allLogins,       \* hallModel.allLogins
    myProjects,      \* hallModel.myProjects
    cmds,            \* the commands the last call of Update returned
    keyMsg,          \* history: the key event editRune was last applied to, if any
    before,          \* history: the text field as it was when editRune was applied to it
    wrapLine,        \* the line handed to hardWrap
    wrapWidth,       \* the width handed to hardWrap
    wrapped,         \* what hardWrap returned for them
    wrapLines,       \* hardWrap's lines that the outer loop has not reached yet
    wrapRunes,       \* hardWrap's runes: what is left of the line being cut
    wrapResult,      \* hardWrap's result: the lines produced so far
    wrapPc,          \* where hardWrap is: "idle", "lines", "runes" or "done"
    pending,         \* commands of the polling loop the runtime has yet to deliver
    issued,          \* history: the last step issued a fetch of the messages
    failures,        \* history: the fetches that have failed so far
    sync,            \* the two results of one loadMessages, and the window before them
    height,          \* hallModel.height: the lines the shell allots to the hall
    scroll,          \* hallModel.scroll: lines scrolled up from the bottom
    view,            \* App.view: the view that is shown
    helpOpen,        \* App.helpOpen: the help overlay is shown
    peekOpen,        \* App.peekOpen: the peek overlay is shown
    peeks,           \* the showPeekMsg commands whose message has not been delivered yet
    quitting         \* App.Update has returned tea.Quit

composerVars == <<input, mentionActive, mentionQuery, mentionMatches, mentionCursor,
                  projectActive, projectQuery, projectMatches, projectCursor,
                  inputFocused, status, allLogins, myProjects, cmds, keyMsg, before>>

wrapVars == <<wrapLine, wrapWidth, wrapped, wrapLines, wrapRunes, wrapResult, wrapPc>>

pollVars == <<pending, issued, failures, sync>>

layoutVars == <<height, scroll>>

shellVars == <<view, helpOpen, peekOpen, peeks, quitting>>

vars == <<messages, seenIDs, presenceLogins, presenceCount, myLogin, err, connected,
          step, inserted, evicted, redelivered, lastSnapshot,
          composerVars, wrapVars, pollVars, layoutVars, shellVars>>

hallVars == <<messages, seenIDs, presenceLogins, presenceCount, myLogin, err, connected>>

(***************************************************************************)
(* Bounds of the model.  hall.go keeps the 200 most recent entries; the    *)
(* model keeps Cap of them so that eviction is reachable.                  *)
(***************************************************************************)
Cap == 2          \* entries kept by the trim of the window
Extra == 1        \* entries the presence handler may pile up beyond Cap
MaxBatch == 2     \* messages in one fetched page
MaxPresent == 2   \* logins in one presence snapshot
maxInputLen == 3  \* runes the composition buffer may hold (2000 in input.go)
MaxWrapLen == 5   \* runes in a text handed to hardWrap
MaxWidth == 3     \* the widest line hardWrap is asked for
MaxSends == 1     \* sends awaiting their result when polling is observed
MaxFailures == 2  \* failed fetches counted (the count saturates there)
MaxHeight == 5    \* the tallest hall the shell allots while the log is scrolled
FullHeight == 12  \* a hall tall enough for every popup of the model

Logins == {"alice", "bob"}

(***************************************************************************)
(* A Go slice of strings: the nil slice is not the empty slice.            *)
(***************************************************************************)
NilSlice == [isNil |-> TRUE, elems |-> <<>>]

Slice(s) == [isNil |-> FALSE, elems |-> s]

Range(s) == {s[i] : i \in DOMAIN s}

\* no key event has been handled yet
NoKey == [Type |-> "none", Runes |-> "", Alt |-> FALSE]

\* the composer of a new hallModel: an empty buffer in Normal mode, focused
NewComposer ==
    [input |-> "", mentionActive |-> FALSE, mentionQuery |-> "", mentionMatches |-> <<>>,
     mentionCursor |-> 0, projectActive |-> FALSE, projectQuery |-> "",
     projectMatches |-> <<>>, projectCursor |-> 0, inputFocused |-> TRUE, status |-> ""]

(***************************************************************************)
(* The backend's messages (domain.RoomMessage).  IDs are UUIDs, here       *)
(* 1..NumMsgs, one more than the window keeps; messages 1 and 2 were       *)
(* created at the same instant.                                            *)
(***************************************************************************)
NumMsgs == Cap + 1

MsgIDs == 1..NumMsgs

RoomMessage(i) ==
    [ID          |-> i,
     SenderLogin |-> IF i % 2 = 1 THEN "alice" ELSE "bob",
     Body        |-> "body" \o ToString(i),
     Kind        |-> IF i % 3 = 0 THEN "ship" ELSE "",
     CreatedAt   |-> IF i = 1 THEN 1 ELSE i - 1]

\* raw.ID.String(): the canonical text of a UUID, never the empty string
UUIDString(i) == "m" \o ToString(i)

RECURSIVE SeqsUpTo(_, _)
SeqsUpTo(S, n) ==
    IF n = 0 THEN {<<>>}
    ELSE LET shorter == SeqsUpTo(S, n - 1)
         IN  shorter \cup {Append(s, x) : s \in shorter, x \in S}

\* the pages a fetch can return: any messages, in any order, repeats included
Batches == {[i \in DOMAIN b |-> RoomMessage(b[i])] : b \in SeqsUpTo(MsgIDs, MaxBatch)}

\* the presence lists a fetch can return: distinct logins in any order
PresenceLists ==
    {s \in SeqsUpTo(Logins, MaxPresent) : \A i, j \in DOMAIN s : i # j => s[i] # s[j]}

PresenceSlices == {NilSlice} \cup {Slice(s) : s \in PresenceLists}

\* the identity GetMe resolves to for this session
Me == "alice"

(***************************************************************************)
(* chatMessage values.                                                     *)
(***************************************************************************)
\* time.Time's zero value sorts before every backend timestamp
ZeroTime == 0

\* a.CreatedAt.Before(b.CreatedAt), the less function handed to sort.Slice
Before(a, b) == a.CreatedAt < b.CreatedAt

\* the chatMessage the merge loop builds from a fetched message (SenderGuild
\* and Metadata are copied through and animStart is wall-clock time; none of
\* them is read by a handler modelled here)
NewChatMessage(raw, me) ==
    LET kind == IF raw.Kind = "" THEN "message" ELSE raw.Kind
    IN  [ID          |-> UUIDString(raw.ID),
         SenderLogin |-> raw.SenderLogin,
         Body        |-> raw.Body,
         Kind        |-> kind,
         CreatedAt   |-> raw.CreatedAt,
         IsSystem    |-> FALSE,
         IsSelf      |-> (raw.SenderLogin = me),
         Reactions   |-> <<>>,
         animFrame   |-> IF kind # "message" /\ kind # "" THEN 1 ELSE 0]

\* chatMessage{IsSystem: true, Body: body}: every other field is its zero value
SystemMessage(body) ==
    [ID          |-> "",
     SenderLogin |-> "",
     Body        |-> body,
     Kind        |-> "",
     CreatedAt   |-> ZeroTime,
     IsSystem    |-> TRUE,
     IsSelf      |-> FALSE,
     Reactions   |-> <<>>,
     animFrame   |-> 0]

(***************************************************************************)
(* hallMessagesMsg: the merge loop, the sort and the trim.                 *)
(***************************************************************************)
\* the loop without its seen-ID test: every fetched message is appended
RECURSIVE MergeNew_NoDedup(_, _, _, _)
MergeNew_NoDedup(ms, seen, batch, me) ==
    IF batch = <<>> THEN [messages |-> ms, seenIDs |-> seen]
    ELSE MergeNew_NoDedup(Append(ms, NewChatMessage(Head(batch), me)),
                          seen \cup {UUIDString(Head(batch).ID)}, Tail(batch), me)

\* the loop over msg.messages: skip a seen ID, else mark it seen and append
RECURSIVE MergeNew(_, _, _, _)
MergeNew(ms, seen, batch, me) ==
    IF batch = <<>> THEN [messages |-> ms, seenIDs |-> seen]
    ELSE LET raw == Head(batch)
             id  == UUIDString(raw.ID)
         IN  IF id \in seen
             THEN MergeNew(ms, seen, Tail(batch), me)
             ELSE MergeNew(Append(ms, NewChatMessage(raw, me)), seen \cup {id},
                           Tail(batch), me)

InsertAt(t, k, x) == SubSeq(t, 1, k) \o <<x>> \o SubSeq(t, k + 1, Len(t))

\* the sort left out: the window stays in arrival order
SortSlice_NoSort(s) == {s}

\* sort.Slice by CreatedAt: not a stable sort, so entries with equal
\* timestamps may come out in any order
RECURSIVE SortSlice(_)
SortSlice(s) ==
    IF s = <<>> THEN {<<>>}
    ELSE LET x == s[Len(s)]
         IN  UNION {{InsertAt(t, k, x) :
                        k \in {k \in 0..Len(t) :
                                 /\ \A j \in 1..k : ~Before(x, t[j])
                                 /\ \A j \in (k + 1)..Len(t) : ~Before(t[j], x)}} :
                    t \in SortSlice(SubSeq(s, 1, Len(s) - 1))}

\* the trim copying from the front of the slice: the oldest Cap entries stay
TrimWindow_KeepOldest(s) == IF Len(s) > Cap THEN SubSeq(s, 1, Cap) ELSE s

\* trimmed := the last Cap entries, when there are more than Cap
TrimWindow(s) == IF Len(s) > Cap THEN SubSeq(s, Len(s) - Cap + 1, Len(s)) ELSE s

\* the seen-ID map after the trim: rebuilt from the survivors' ID fields
\* only when the window was cut
RebuildSeen(sorted, seen) ==
    IF Len(sorted) > Cap
    THEN {TrimWindow(sorted)[i].ID : i \in DOMAIN TrimWindow(sorted)}
    ELSE seen

\* the IDs of the fetched messages held in a window
HeldIDs(s) == {s[i].ID : i \in {i \in DOMAIN s : ~s[i].IsSystem}}

\* what handling one fetched page can leave behind: the merge loop, then one
\* outcome of the sort, then the trim and the rebuild of the seen-ID map
MergeResults(batch) ==
    LET merged == MergeNew(messages, seenIDs, batch, myLogin)
    IN  {[messages |-> TrimWindow(sorted),
          seenIDs  |-> RebuildSeen(sorted, merged.seenIDs),
          appended |-> HeldIDs(merged.messages),
          skipped  |-> (Len(merged.messages) - Len(messages) < Len(batch))] :
            sorted \in SortSlice(merged.messages)}

HallMessagesMerge(batches) ==
    \E r \in UNION {MergeResults(batch) : batch \in batches} :
        /\ messages' = r.messages
        /\ seenIDs' = r.seenIDs
        /\ err' = ""
        /\ connected' = TRUE
        /\ UNCHANGED <<presenceLogins, presenceCount, myLogin>>
        /\ step' = "messages"
        /\ inserted' = inserted \cup r.appended
        /\ evicted' = evicted \cup (HeldIDs(messages) \ HeldIDs(r.messages))
        /\ redelivered' = r.skipped
        /\ UNCHANGED lastSnapshot

HallMessagesOk ==
    /\ HallMessagesMerge(Batches)
    /\ UNCHANGED <<composerVars, wrapVars, pollVars, layoutVars, shellVars>>

\* msg.err != nil: record the error text and keep everything else
\* an error path that empties the window
HallMessagesFail_ClearsWindow ==
    /\ err' = "fetch failed"
    /\ messages' = <<>>
    /\ UNCHANGED <<seenIDs, presenceLogins, presenceCount, myLogin, connected>>
    /\ step' = "other"
    /\ redelivered' = FALSE
    /\ UNCHANGED <<inserted, evicted, lastSnapshot>>

HallMessagesFail ==
    /\ err' = "fetch failed"
    /\ UNCHANGED <<messages, seenIDs, presenceLogins, presenceCount, myLogin, connected>>
    /\ step' = "other"
    /\ redelivered' = FALSE
    /\ UNCHANGED <<inserted, evicted, lastSnapshot>>

HallMessagesErr ==
    /\ HallMessagesFail
    /\ UNCHANGED <<composerVars, wrapVars, pollVars, layoutVars, shellVars>>

(***************************************************************************)
(* hallPresenceMsg: the join/leave diff against the previous snapshot.     *)
(***************************************************************************)
\* for _, l := range msg.logins: a login the old set lacks, not the local one
JoinedLogins(old, new, me) ==
    LET IsNew(l) == l \notin Range(old) /\ l # me
    IN  SelectSeq(new, IsNew)

\* for _, l := range m.presenceLogins: a login the new set lacks, not the local one
LeftLogins(old, new, me) ==
    LET IsGone(l) == l \notin Range(new) /\ l # me
    IN  SelectSeq(old, IsGone)

\* the system entries the handler appends, joins first, each in list order
PresenceDiff(old, new, me) ==
    LET joined == JoinedLogins(old, new, me)
        left   == LeftLogins(old, new, me)
    IN  [i \in DOMAIN joined |-> SystemMessage(joined[i] \o " joined")]
        \o [i \in DOMAIN left |-> SystemMessage(left[i] \o " left")]

\* the diff is skipped while m.presenceLogins is the nil slice
PresenceAppend(ms, prev, logins, me) ==
    IF ~prev.isNil THEN ms \o PresenceDiff(prev.elems, logins.elems, me) ELSE ms

\* msg.err == nil: what the handler does to the hall
HallPresenceMerge(logins, count) ==
    /\ Len(PresenceAppend(messages, presenceLogins, logins, myLogin)) <= Cap + Extra
    /\ messages' = PresenceAppend(messages, presenceLogins, logins, myLogin)
    /\ presenceCount' = count
    /\ presenceLogins' = logins
    /\ UNCHANGED <<seenIDs, myLogin, err, connected>>
    /\ step' = "presence"
    /\ lastSnapshot' = [had |-> TRUE, logins |-> Range(logins.elems)]
    /\ redelivered' = FALSE
    /\ UNCHANGED <<inserted, evicted>>

HallPresenceOk(logins, count) ==
    /\ HallPresenceMerge(logins, count)
    /\ UNCHANGED <<composerVars, wrapVars, pollVars, layoutVars, shellVars>>

\* msg.err != nil: nothing changes
HallPresenceErr ==
    /\ UNCHANGED hallVars
    /\ step' = "other"
    /\ redelivered' = FALSE
    /\ UNCHANGED <<inserted, evicted, lastSnapshot>>
    /\ UNCHANGED <<composerVars, wrapVars, pollVars, layoutVars, shellVars>>

(***************************************************************************)
(* meLoadedMsg: the local identity arrives; held entries are re-classified.*)
(***************************************************************************)
\* a re-classification that marks every held entry as the local user's
Reclassify_MarksAll(ms, me) == [i \in DOMAIN ms |-> [ms[i] EXCEPT !.IsSelf = TRUE]]

\* a handler that stores the login and leaves the held entries as they are
Reclassify_KeepsFlags(ms, me) == ms

Reclassify(ms, me) == [i \in DOMAIN ms |-> [ms[i] EXCEPT !.IsSelf = (ms[i].SenderLogin = me)]]

MeLoadedOk ==
    /\ myLogin' = Me
    /\ messages' = Reclassify(messages, Me)
    /\ UNCHANGED <<seenIDs, presenceLogins, presenceCount, err, connected>>
    /\ step' = "other"
    /\ redelivered' = FALSE
    /\ UNCHANGED <<inserted, evicted, lastSnapshot>>
    /\ cmds' = <<>>
    /\ UNCHANGED <<input, mentionActive, mentionQuery, mentionMatches, mentionCursor,
                   projectActive, projectQuery, projectMatches, projectCursor,
                   inputFocused, status, allLogins, myProjects, keyMsg, before>>
    /\ UNCHANGED <<wrapVars, pollVars, layoutVars, shellVars>>

\* msg.err != nil or msg.me == nil: nothing changes
MeLoadedErr ==
    /\ UNCHANGED hallVars
    /\ step' = "other"
    /\ redelivered' = FALSE
    /\ UNCHANGED <<inserted, evicted, lastSnapshot>>
    /\ UNCHANGED <<composerVars, wrapVars, pollVars, layoutVars, shellVars>>

(***************************************************************************)
(* newHallModel, and the event loop handing Update one message at a time.  *)
(***************************************************************************)
ComposerIdle ==
    /\ input = "" /\ inputFocused = TRUE /\ status = ""
    /\ mentionActive = FALSE /\ mentionQuery = "" /\ mentionMatches = <<>> /\ mentionCursor = 0
    /\ projectActive = FALSE /\ projectQuery = "" /\ projectMatches = <<>> /\ projectCursor = 0
    /\ allLogins = <<>> /\ myProjects = <<>>
    /\ cmds = <<>> /\ keyMsg = NoKey /\ before = NewComposer

\* hardWrap has not been called
LoopIdle == wrapLines = <<>> /\ wrapRunes = "" /\ wrapResult = <<>> /\ wrapPc = "idle"

WrapIdle == wrapLine = "" /\ wrapWidth = 0 /\ wrapped = "" /\ LoopIdle

\* no pair of results is under way
NoSync == [left |-> {}, first |-> "none", page |-> <<>>, logins |-> NilSlice,
           from |-> [messages |-> <<>>, seenIDs |-> {}, presenceLogins |-> NilSlice]]

PollIdle ==
    /\ pending = [fetch |-> 0, tick |-> 0, send |-> 0] /\ issued = FALSE /\ failures = 0
    /\ sync = NoSync

\* newHallModel leaves height and scroll zero; NewApp shows the Home view
LayoutIdle == height = 0 /\ scroll = 0

ShellIdle ==
    /\ view = "viewHome" /\ helpOpen = FALSE /\ peekOpen = FALSE
    /\ peeks = 0 /\ quitting = FALSE

HallIdle ==
    /\ messages = <<>> /\ seenIDs = {} /\ presenceLogins = NilSlice /\ presenceCount = 0
    /\ myLogin = "" /\ err = "" /\ connected = FALSE
    /\ step = "init" /\ inserted = {} /\ evicted = {} /\ redelivered = FALSE
    /\ lastSnapshot = [had |-> FALSE, logins |-> {}]

Init == HallIdle /\ LayoutIdle /\ ShellIdle /\ ComposerIdle /\ WrapIdle /\ PollIdle

Next ==
    \/ HallMessagesOk
    \/ HallMessagesErr
    \/ \E logins \in PresenceSlices : HallPresenceOk(logins, Len(logins.elems))
    \/ HallPresenceErr
    \/ MeLoadedOk
    \/ MeLoadedErr

Spec == Init /\ [][Next]_vars

(***************************************************************************)
(* Strings.  A string is a sequence of runes; "é" is the one rune of the   *)
(* model that takes two bytes in UTF-8.                                    *)
(***************************************************************************)
RuneCountInString(s) == Len(s)

RuneBytes(r) == IF r = "é" THEN 2 ELSE 1

\* len(s) of Go: the length in bytes
RECURSIVE ByteLen(_)
ByteLen(s) == IF s = "" THEN 0 ELSE RuneBytes(SubSeq(s, 1, 1)) + ByteLen(SubSeq(s, 2, Len(s)))

HasPrefix(s, prefix) == Len(prefix) <= Len(s) /\ SubSeq(s, 1, Len(prefix)) = prefix

HasSuffix(s, suffix) == Len(suffix) <= Len(s) /\ SubSeq(s, Len(s) - Len(suffix) + 1, Len(s)) = suffix

TrimSuffix(s, suffix) == IF HasSuffix(s, suffix) THEN SubSeq(s, 1, Len(s) - Len(suffix)) ELSE s

(***************************************************************************)
(* Key events.  msg.String() names a key: the runes themselves for typed   *)
(* or pasted text, the key's name otherwise, "alt+" in front when Alt was  *)
(* held.                                                                   *)
(***************************************************************************)
KeyNames ==
    [KeyEnter |-> "enter", KeyTab |-> "tab", KeyEsc |-> "esc", KeyUp |-> "up",
     KeyDown |-> "down", KeyBackspace |-> "backspace", KeyHome |-> "home",
     KeyShiftTab |-> "shift+tab", KeyCtrlC |-> "ctrl+c"]

KeyString(msg) ==
    (IF msg.Alt THEN "alt+" ELSE "")
        \o (IF msg.Type = "KeyRunes" THEN msg.Runes ELSE KeyNames[msg.Type])

Runes(text) == [Type |-> "KeyRunes", Runes |-> text, Alt |-> FALSE]

Named(type) == [Type |-> type, Runes |-> "", Alt |-> FALSE]

AltEnter == [Type |-> "KeyEnter", Runes |-> "", Alt |-> TRUE]

(***************************************************************************)
(* input.go: the text editor core.                                         *)
(***************************************************************************)
namedKeys ==
    {"enter", "return", "tab", "esc", "escape", "space", "up", "down", "left", "right",
     "home", "end", "pgup", "pgdown", "delete", "insert",
     "f1", "f2", "f3", "f4", "f5", "f6", "f7", "f8", "f9", "f10",
     "f11", "f12", "f13", "f14", "f15", "f16", "f17", "f18", "f19", "f20"}

isNamedKey(key) ==
    \/ key \in namedKeys
    \/ HasPrefix(key, "ctrl+") \/ HasPrefix(key, "alt+") \/ HasPrefix(key, "shift+")

\* a backspace that cuts one byte: the rest of a two-byte rune is left behind
editRune_CutsOneByte(text, key) ==
    IF key = "backspace" /\ Len(text) > 0
    THEN IF RuneBytes(SubSeq(text, Len(text), Len(text))) > 1
         THEN SubSeq(text, 1, Len(text) - 1) \o "?"
         ELSE SubSeq(text, 1, Len(text) - 1)
    ELSE text

editRune(text, key) ==
    IF key = "backspace"
    THEN IF ByteLen(text) > 0 THEN SubSeq(text, 1, Len(text) - 1) ELSE text
    ELSE LET keyLen    == RuneCountInString(key)
             textLen   == RuneCountInString(text)
             remaining == maxInputLen - textLen
         IN  IF keyLen < 1 \/ isNamedKey(key) THEN text
             ELSE IF textLen >= maxInputLen THEN text
             ELSE IF keyLen > 1 /\ keyLen > remaining
                  THEN text \o SubSeq(key, 1, remaining)
                  ELSE text \o key

(***************************************************************************)
(* A text field edited through editRune alone: any text of up to           *)
(* maxInputLen runes, any key event.                                       *)
(***************************************************************************)
RECURSIVE StringsUpTo(_, _)
StringsUpTo(alphabet, n) ==
    IF n = 0 THEN {""}
    ELSE LET shorter == StringsUpTo(alphabet, n - 1)
         IN  shorter \cup {t \o c : t \in shorter, c \in alphabet}

EditTexts == StringsUpTo({"a", "é"}, maxInputLen)

\* typed runes, pasted runs of runes (one of them the word "end"), keys with a name
EditKeys ==
    {Runes(t) : t \in {"a", "é", " ", "az", "éa", "end", "azéazéaz"}}
        \cup {Named(t) : t \in DOMAIN KeyNames}
        \cup {AltEnter, [Runes("a") EXCEPT !.Alt = TRUE]}

EditKey(msg) ==
    /\ input' = editRune(input, KeyString(msg))
    /\ keyMsg' = msg
    /\ before' = [NewComposer EXCEPT !.input = input]
    /\ step' = "edit"
    /\ UNCHANGED <<mentionActive, mentionQuery, mentionMatches, mentionCursor,
                   projectActive, projectQuery, projectMatches, projectCursor,
                   inputFocused, status, allLogins, myProjects, cmds>>
    /\ UNCHANGED <<hallVars, inserted, evicted, redelivered, lastSnapshot, wrapVars, pollVars, layoutVars, shellVars>>

InitEdit ==
    /\ HallIdle /\ LayoutIdle /\ ShellIdle /\ WrapIdle /\ PollIdle
    /\ input \in EditTexts /\ inputFocused = TRUE /\ status = ""
    /\ mentionActive = FALSE /\ mentionQuery = "" /\ mentionMatches = <<>> /\ mentionCursor = 0
    /\ projectActive = FALSE /\ projectQuery = "" /\ projectMatches = <<>> /\ projectCursor = 0
    /\ allLogins = <<>> /\ myProjects = <<>>
    /\ cmds = <<>> /\ keyMsg = NoKey /\ before = NewComposer

NextEdit == \E msg \in EditKeys : EditKey(msg)

SpecEdit == InitEdit /\ [][NextEdit]_vars

(***************************************************************************)
(* More of package strings, as the composer uses it.                       *)
(***************************************************************************)
RECURSIVE ToLower(_)
ToLower(s) ==
    IF s = "" THEN ""
    ELSE (IF SubSeq(s, 1, 1) = "A" THEN "a" ELSE SubSeq(s, 1, 1)) \o ToLower(SubSeq(s, 2, Len(s)))

Contains(s, substr) ==
    \E i \in 1..(Len(s) - Len(substr) + 1) : SubSeq(s, i, i + Len(substr) - 1) = substr

IsSpace(r) == r \in {" ", "\n"}

RECURSIVE TrimLeft(_)
TrimLeft(s) == IF s # "" /\ IsSpace(SubSeq(s, 1, 1)) THEN TrimLeft(SubSeq(s, 2, Len(s))) ELSE s

RECURSIVE TrimRight(_)
TrimRight(s) ==
    IF s # "" /\ IsSpace(SubSeq(s, Len(s), Len(s))) THEN TrimRight(SubSeq(s, 1, Len(s) - 1)) ELSE s

TrimSpace(s) == TrimRight(TrimLeft(s))

\* the longest prefix without white space
RECURSIVE Word(_)
Word(s) ==
    IF s = "" \/ IsSpace(SubSeq(s, 1, 1)) THEN ""
    ELSE SubSeq(s, 1, 1) \o Word(SubSeq(s, 2, Len(s)))

\* strings.Fields(s)[0], or "" when strings.Fields(s) is empty
FirstField(s) == Word(TrimLeft(s))

(***************************************************************************)
(* The candidates of the two autocomplete sub-modes.                       *)
(***************************************************************************)
\* every login the model knows, in the order of sort.Strings (bytes: "A" < "a")
LoginOrder == <<"Az", "alice", "bob", "carol", "dave", "erin">>

\* the logins of all registered users, of the presence snapshot and of the
\* held messages' senders, without the empty and the local one, sorted
knownLogins(all, presence, ms, me) ==
    LET senders == {ms[i].SenderLogin : i \in {i \in DOMAIN ms : ~ms[i].IsSystem}}
        seen    == (Range(all) \cup Range(presence.elems) \cup senders) \ {"", me}
        IsSeen(l) == l \in seen
    IN  SelectSeq(LoginOrder, IsSeen)

filterLogins(query, known) ==
    LET q == ToLower(query)
        Matches(l) == HasPrefix(ToLower(l), q)
    IN  IF query = "" THEN known ELSE SelectSeq(known, Matches)

filterProjects(query, projects) ==
    LET q == ToLower(query)
        Matches(p) == q = "" \/ Contains(ToLower(p.Name), q)
    IN  SelectSeq(projects, Matches)

(***************************************************************************)
(* hallModel.updateInput: the composer.  A handler's outcome is the        *)
(* composer it leaves and the commands it returns.                         *)
(***************************************************************************)
Composer ==
    [input |-> input, mentionActive |-> mentionActive, mentionQuery |-> mentionQuery,
     mentionMatches |-> mentionMatches, mentionCursor |-> mentionCursor,
     projectActive |-> projectActive, projectQuery |-> projectQuery,
     projectMatches |-> projectMatches, projectCursor |-> projectCursor,
     inputFocused |-> inputFocused, status |-> status]

Result(m, c) == [m |-> m, cmds |-> c]

sendRoomMessage(body) == [cmd |-> "sendRoomMessage", body |-> body]

loadProjects == [cmd |-> "loadProjects", body |-> ""]

CloseMention(m) ==
    [m EXCEPT !.mentionActive = FALSE, !.mentionQuery = "", !.mentionMatches = <<>>,
              !.mentionCursor = 0]

\* a close that throws the typed text away with the sub-mode
CloseProject_DropsBuffer(m) ==
    [m EXCEPT !.input = "", !.projectActive = FALSE, !.projectQuery = "",
              !.projectMatches = <<>>, !.projectCursor = 0]

CloseProject(m) ==
    [m EXCEPT !.projectActive = FALSE, !.projectQuery = "", !.projectMatches = <<>>,
              !.projectCursor = 0]

\* an accept that forgets the text before the sigil
AcceptMention_DropsPrefix(m) ==
    CloseMention([m EXCEPT !.input = "@" \o m.mentionMatches[m.mentionCursor + 1] \o " "])

\* replace the trailing @query with @fullname and a space
AcceptMention(m) ==
    LET selected == m.mentionMatches[m.mentionCursor + 1]
    IN  CloseMention([m EXCEPT !.input = TrimSuffix(@, "@" \o m.mentionQuery)
                                             \o "@" \o selected \o " "])

\* replace the trailing #query with # and the first word of the project's name
AcceptProject(m) ==
    LET selected == m.projectMatches[m.projectCursor + 1]
        tag      == FirstField(selected.Name)
    IN  IF tag = "" THEN [m EXCEPT !.projectActive = FALSE]
        ELSE CloseProject([m EXCEPT !.input = TrimSuffix(@, "#" \o m.projectQuery)
                                                 \o "#" \o tag \o " "])

\* a Normal mode whose Enter submits without asking who the sender is
updateNormal_IgnoresIdentity(m, key, me, known, projects) ==
    IF key = "enter" /\ TrimSpace(m.input) # ""
    THEN Result([m EXCEPT !.input = "", !.status = ""], <<sendRoomMessage(TrimSpace(m.input))>>)
    ELSE Result([m EXCEPT !.input = editRune(@, key)], <<>>)

\* the Normal mode: the switch at the end of updateInput
\* a Normal mode whose "@" opens the mention sub-mode whether or not a login is known
updateNormal_SigilAlwaysOpens(m, key, me, known, projects) ==
    IF key = "@" /\ RuneCountInString(m.input) < maxInputLen
    THEN Result([m EXCEPT !.input = @ \o "@", !.mentionActive = TRUE, !.mentionQuery = "",
                          !.mentionMatches = filterLogins("", known), !.mentionCursor = 0], <<>>)
    ELSE Result([m EXCEPT !.input = editRune(@, key)], <<>>)

updateNormal(m, key, me, known, projects) ==
    CASE key = "esc" ->
            Result([m EXCEPT !.inputFocused = FALSE, !.status = ""], <<>>)
      [] key \in {"shift+enter", "alt+enter"} ->
            Result(IF RuneCountInString(m.input) < maxInputLen
                   THEN [m EXCEPT !.input = @ \o "\n"] ELSE m, <<>>)
      [] key = "enter" ->
            LET body == TrimSpace(m.input)
            IN  IF body = "" THEN Result(m, <<>>)
                ELSE IF me = "" THEN Result([m EXCEPT !.status = "run: grimora login"], <<>>)
                ELSE Result([m EXCEPT !.input = "", !.status = ""],
                            <<sendRoomMessage(body)>>
                                \o (IF HasPrefix(body, "/build ") THEN <<loadProjects>> ELSE <<>>))
      [] key = "@" ->
            IF RuneCountInString(m.input) >= maxInputLen THEN Result(m, <<>>)
            ELSE LET all == filterLogins("", known)
                 IN  Result([m EXCEPT !.input = @ \o "@", !.mentionActive = Len(all) > 0,
                                      !.mentionQuery = "", !.mentionMatches = all,
                                      !.mentionCursor = 0], <<>>)
      [] key = "#" ->
            IF RuneCountInString(m.input) >= maxInputLen THEN Result(m, <<>>)
            ELSE IF Len(projects) > 0
                 THEN Result([m EXCEPT !.input = @ \o "#", !.projectActive = TRUE,
                                       !.projectQuery = "",
                                       !.projectMatches = filterProjects("", projects),
                                       !.projectCursor = 0], <<>>)
                 ELSE Result([m EXCEPT !.input = @ \o "#"], <<>>)
      [] OTHER -> Result([m EXCEPT !.input = editRune(@, key)], <<>>)

\* a project sub-mode whose Backspace shortens the query and not the buffer
updateProject_KeepsBuffer(m, key, projects) ==
    IF key = "backspace"
    THEN Result([m EXCEPT !.projectQuery = editRune(@, "backspace")], <<>>)
    ELSE IF ByteLen(key) = 1 /\ RuneCountInString(m.input) < maxInputLen
    THEN Result([m EXCEPT !.projectQuery = @ \o key, !.input = @ \o key], <<>>)
    ELSE Result(CloseProject(m), <<>>)

\* the project sub-mode: every key returns from inside the switch
updateProject(m, key, projects) ==
    CASE key \in {"tab", "enter"} ->
            Result(IF Len(m.projectMatches) > 0 THEN AcceptProject(m) ELSE CloseProject(m), <<>>)
      [] key = "up" ->
            Result(IF m.projectCursor > 0 THEN [m EXCEPT !.projectCursor = @ - 1] ELSE m, <<>>)
      [] key = "down" ->
            Result(IF m.projectCursor < Len(m.projectMatches) - 1
                   THEN [m EXCEPT !.projectCursor = @ + 1] ELSE m, <<>>)
      [] key \in {"esc", " "} ->
            Result(CloseProject([m EXCEPT !.input = IF key = " " THEN @ \o " " ELSE @]), <<>>)
      [] key = "backspace" ->
            IF m.projectQuery = ""
            THEN Result(CloseProject([m EXCEPT !.input = TrimSuffix(@, "#")]), <<>>)
            ELSE LET query   == editRune(m.projectQuery, "backspace")
                     matches == filterProjects(query, projects)
                     edited  == [m EXCEPT !.projectQuery = query,
                                          !.input = editRune(@, "backspace"),
                                          !.projectMatches = matches, !.projectCursor = 0]
                 IN  Result(IF Len(matches) = 0 THEN CloseProject(edited) ELSE edited, <<>>)
      [] OTHER ->
            IF ByteLen(key) = 1 /\ RuneCountInString(m.input) < maxInputLen
            THEN LET query   == m.projectQuery \o key
                     matches == filterProjects(query, projects)
                     edited  == [m EXCEPT !.projectQuery = query, !.input = @ \o key,
                                          !.projectMatches = matches, !.projectCursor = 0]
                 IN  Result(IF Len(matches) = 0 THEN CloseProject(edited) ELSE edited, <<>>)
            ELSE Result(m, <<>>)

\* what follows the mention switch: the project sub-mode, then the Normal mode
updateBelowMention(m, key, me, known, projects) ==
    IF m.projectActive THEN updateProject(m, key, projects)
    ELSE updateNormal(m, key, me, known, projects)

\* a mention sub-mode whose Escape leaves the composer and keeps the sub-mode open
updateMention_EscLeavesOpen(m, key, me, known, projects) ==
    IF key = "esc" THEN Result([m EXCEPT !.inputFocused = FALSE], <<>>)
    ELSE Result(CloseMention(m), <<>>)

\* a mention sub-mode whose Backspace on an empty query leaves the sigil behind
updateMention_KeepsSigil(m, key, me, known, projects) ==
    IF key = "backspace" /\ m.mentionQuery # ""
    THEN LET query == editRune(m.mentionQuery, "backspace")
         IN  Result([m EXCEPT !.mentionQuery = query, !.input = editRune(@, "backspace"),
                              !.mentionMatches = filterLogins(query, known),
                              !.mentionCursor = 0], <<>>)
    ELSE Result(CloseMention(m), <<>>)

\* the mention sub-mode: Enter without a match leaves the switch and goes on below
updateMention(m, key, me, known, projects) ==
    CASE key = "tab" ->
            Result(IF Len(m.mentionMatches) > 0 THEN AcceptMention(m) ELSE CloseMention(m), <<>>)
      [] key = "up" ->
            Result(IF m.mentionCursor > 0 THEN [m EXCEPT !.mentionCursor = @ - 1] ELSE m, <<>>)
      [] key = "down" ->
            Result(IF m.mentionCursor < Len(m.mentionMatches) - 1
                   THEN [m EXCEPT !.mentionCursor = @ + 1] ELSE m, <<>>)
      [] key \in {"esc", " "} ->
            Result(CloseMention([m EXCEPT !.input = IF key = " " THEN @ \o " " ELSE @]), <<>>)
      [] key = "backspace" ->
            IF m.mentionQuery = ""
            THEN Result(CloseMention([m EXCEPT !.input = TrimSuffix(@, "@")]), <<>>)
            ELSE LET query == editRune(m.mentionQuery, "backspace")
                 IN  Result([m EXCEPT !.mentionQuery = query,
                                      !.input = editRune(@, "backspace"),
                                      !.mentionMatches = filterLogins(query, known),
                                      !.mentionCursor = 0], <<>>)
      [] key = "enter" ->
            IF Len(m.mentionMatches) > 0 THEN Result(AcceptMention(m), <<>>)
            ELSE updateBelowMention([m EXCEPT !.mentionActive = FALSE], key, me, known, projects)
      [] OTHER ->
            IF ByteLen(key) = 1 /\ RuneCountInString(m.input) < maxInputLen
            THEN LET query   == m.mentionQuery \o key
                     matches == filterLogins(query, known)
                     edited  == [m EXCEPT !.mentionQuery = query, !.input = @ \o key,
                                          !.mentionMatches = matches, !.mentionCursor = 0]
                 IN  Result(IF Len(matches) = 0 THEN CloseMention(edited) ELSE edited, <<>>)
            ELSE Result(m, <<>>)

updateInput(m, key, me, known, projects) ==
    IF m.mentionActive THEN updateMention(m, key, me, known, projects)
    ELSE updateBelowMention(m, key, me, known, projects)

\* the input is not focused: j scrolls toward the bottom, k toward the top
\* up to three lines for each entry of the window
navScroll(sc, key, held) ==
    IF key = "j" THEN (IF sc > 0 THEN sc - 1 ELSE sc)
    ELSE IF key = "k" THEN (IF sc < held * 3 THEN sc + 1 ELSE sc)
    ELSE sc

\* the input is not focused: Enter, i and / focus it (the scroll keys move no text)
updateNav(m, key) ==
    Result(IF key \in {"enter", "i", "/"} THEN [m EXCEPT !.inputFocused = TRUE, !.status = ""]
           ELSE m, <<>>)

(***************************************************************************)
(* The composer under key events, with the candidate pools and the local   *)
(* identity arriving while the user types.                                 *)
(***************************************************************************)
\* typed runes, a pasted run, and the keys updateInput gives a meaning
InputKeys ==
    {Runes(t) : t \in {"a", "z", "é", " ", "@", "#", "az"}}
        \cup {Named(t) : t \in {"KeyEnter", "KeyTab", "KeyEsc", "KeyUp", "KeyDown",
                                "KeyBackspace"}}
        \cup {AltEnter}

\* what ListMagicians can deliver (loadAllLogins drops the empty logins)
AllLoginLists == {<<>>, <<"alice", "Az">>}

\* what ListWorkshopProjects can deliver
ProjectLists == {<<>>, <<[Name |-> "az app"], [Name |-> "my app"]>>}

\* the handler's name in the history: Enter and Tab under their own names
KeyStep(msg) == IF msg.Type \in {"KeyEnter", "KeyTab"} /\ ~msg.Alt THEN KeyNames[msg.Type] ELSE "key"

SetComposer(m) ==
    /\ input' = m.input
    /\ mentionActive' = m.mentionActive /\ mentionQuery' = m.mentionQuery
    /\ mentionMatches' = m.mentionMatches /\ mentionCursor' = m.mentionCursor
    /\ projectActive' = m.projectActive /\ projectQuery' = m.projectQuery
    /\ projectMatches' = m.projectMatches /\ projectCursor' = m.projectCursor
    /\ inputFocused' = m.inputFocused /\ status' = m.status

\* tea.KeyMsg in hallModel.Update: updateInput while the input is focused,
\* updateNav otherwise
HallKeyMsg(msg) ==
    LET key   == KeyString(msg)
        known == knownLogins(allLogins, presenceLogins, messages, myLogin)
        r     == IF inputFocused THEN updateInput(Composer, key, myLogin, known, myProjects)
                 ELSE updateNav(Composer, key)
    IN  /\ SetComposer(r.m)
        /\ cmds' = r.cmds
        /\ step' = KeyStep(msg)
        /\ UNCHANGED <<allLogins, myProjects, keyMsg, before>>
        /\ scroll' = IF inputFocused THEN scroll ELSE navScroll(scroll, key, Len(messages))
        /\ UNCHANGED <<hallVars, inserted, evicted, redelivered, lastSnapshot, wrapVars>>
        /\ UNCHANGED height

\* a key event handed to the hall, the commands it returns left unobserved
KeyMsg(msg) == HallKeyMsg(msg) /\ UNCHANGED <<pollVars, shellVars>>

\* hallLoginsMsg: the pool of logins is replaced
HallLoginsMsg(logins) ==
    /\ allLogins' = logins
    /\ cmds' = <<>>
    /\ step' = "other"
    /\ UNCHANGED <<input, mentionActive, mentionQuery, mentionMatches, mentionCursor,
                   projectActive, projectQuery, projectMatches, projectCursor,
                   inputFocused, status, myProjects, keyMsg, before>>
    /\ UNCHANGED <<hallVars, inserted, evicted, redelivered, lastSnapshot, wrapVars, pollVars, layoutVars, shellVars>>

\* hallProjectsMsg without an error: the user's projects are replaced
HallProjectsOk(projects) ==
    /\ myProjects' = projects
    /\ cmds' = <<>>
    /\ step' = "other"
    /\ UNCHANGED <<input, mentionActive, mentionQuery, mentionMatches, mentionCursor,
                   projectActive, projectQuery, projectMatches, projectCursor,
                   inputFocused, status, allLogins, keyMsg, before>>
    /\ UNCHANGED <<hallVars, inserted, evicted, redelivered, lastSnapshot, wrapVars, pollVars, layoutVars, shellVars>>

NextInput ==
    \/ \E msg \in InputKeys : KeyMsg(msg)
    \/ \E logins \in AllLoginLists : HallLoginsMsg(logins)
    \/ \E projects \in ProjectLists : HallProjectsOk(projects)
    \/ MeLoadedOk

SpecInput == Init /\ [][NextInput]_vars

(***************************************************************************)
(* hardWrap: lines wider than width cells are cut at rune boundaries.      *)
(* lipgloss.Width counts terminal cells: one for "a", two for a wide rune  *)
(* such as U+4F60, which is written "W" here.                              *)
(***************************************************************************)
RuneWidth(r) == IF r = "W" THEN 2 ELSE 1

RECURSIVE Width(_)
Width(s) == IF s = "" THEN 0 ELSE RuneWidth(SubSeq(s, 1, 1)) + Width(SubSeq(s, 2, Len(s)))

NewlineAt(s) == {i \in 1..Len(s) : SubSeq(s, i, i) = "\n"}

\* strings.Split(s, "\n")
RECURSIVE Split(_)
Split(s) ==
    IF NewlineAt(s) = {} THEN <<s>>
    ELSE LET i == CHOOSE i \in NewlineAt(s) : \A j \in NewlineAt(s) : i <= j
         IN  <<SubSeq(s, 1, i - 1)>> \o Split(SubSeq(s, i + 1, Len(s)))

\* strings.Join(lines, "\n")
RECURSIVE Join(_)
Join(lines) ==
    IF Len(lines) = 0 THEN ""
    ELSE IF Len(lines) = 1 THEN lines[1]
    ELSE lines[1] \o "\n" \o Join(Tail(lines))

\* the inner loops: as many runes as fit in width, one at least, then the rest
RECURSIVE BreakLine(_, _)
BreakLine(runes, width) ==
    IF runes = "" THEN <<>>
    ELSE LET fits == {e \in 0..Len(runes) : Width(SubSeq(runes, 1, e)) <= width}
             most == CHOOSE e \in fits : \A f \in fits : f <= e
             end  == IF most = 0 THEN 1 ELSE most
         IN  <<SubSeq(runes, 1, end)>> \o BreakLine(SubSeq(runes, end + 1, Len(runes)), width)

RECURSIVE WrapLines(_, _)
WrapLines(lines, width) ==
    IF Len(lines) = 0 THEN <<>>
    ELSE (IF Width(lines[1]) <= width THEN <<lines[1]>> ELSE BreakLine(lines[1], width))
             \o WrapLines(Tail(lines), width)

\* a wrap that keeps the first piece of a long line and drops the rest
hardWrap_Truncates(s, width) ==
    IF width <= 0 \/ Width(s) <= width THEN s ELSE BreakLine(s, width)[1]

hardWrap(s, width) ==
    IF width <= 0 THEN s ELSE Join(WrapLines(Split(s), width))

(***************************************************************************)
(* hardWrap applied to any text of up to MaxWrapLen runes and any width up *)
(* to MaxWidth.                                                            *)
(***************************************************************************)
WrapTexts == StringsUpTo({"a", "W", "\n"}, MaxWrapLen)

WrapWidths == 0..MaxWidth

HardWrap ==
    /\ step = "init"
    /\ wrapped' = hardWrap(wrapLine, wrapWidth)
    /\ step' = "wrap"
    /\ UNCHANGED <<wrapLine, wrapWidth, wrapLines, wrapRunes, wrapResult, wrapPc>>
    /\ UNCHANGED <<hallVars, inserted, evicted, redelivered, lastSnapshot, composerVars, pollVars, layoutVars, shellVars>>

InitWrap ==
    /\ HallIdle /\ LayoutIdle /\ ShellIdle /\ ComposerIdle /\ PollIdle
    /\ wrapLine \in WrapTexts /\ wrapWidth \in WrapWidths /\ wrapped = ""
    /\ LoopIdle

NextWrap == HardWrap

SpecWrap == InitWrap /\ [][NextWrap]_vars

(***************************************************************************)
(* hardWrap statement by statement: the outer loop over the lines and the  *)
(* inner loop that cuts a line too wide, one piece for each iteration.     *)
(***************************************************************************)
\* an inner loop without the end = 1 of the line that fits no rune
SliceEnd_MayBeZero(line, width) ==
    LET fits == {e \in 0..Len(line) : Width(SubSeq(line, 1, e)) <= width}
    IN  CHOOSE e \in fits : \A f \in fits : f <= e

\* end: the runes that fit in width, found from len(runes) downward, one at least
SliceEnd(line, width) ==
    LET fits == {e \in 0..Len(line) : Width(SubSeq(line, 1, e)) <= width}
        most == CHOOSE e \in fits : \A f \in fits : f <= e
    IN  IF most = 0 THEN 1 ELSE most

\* widths hardWrap is called with, zero and a negative one among them
LoopWidths == -1..MaxWidth

LoopFrame ==
    /\ step' = "wrap"
    /\ UNCHANGED <<wrapLine, wrapWidth>>
    /\ UNCHANGED <<hallVars, inserted, evicted, redelivered, lastSnapshot, composerVars,
                   pollVars, layoutVars, shellVars>>

\* if width <= 0 { return s }; lines := strings.Split(s, "\n")
WrapCall ==
    /\ wrapPc = "idle"
    /\ IF wrapWidth <= 0
       THEN /\ wrapped' = wrapLine /\ wrapPc' = "done"
            /\ UNCHANGED <<wrapLines, wrapRunes, wrapResult>>
       ELSE /\ wrapLines' = Split(wrapLine) /\ wrapPc' = "lines"
            /\ UNCHANGED <<wrapped, wrapRunes, wrapResult>>
    /\ LoopFrame

\* for _, line := range lines: a line that fits is appended, another is
\* handed to the inner loop; after the last line the result is joined
WrapNextLine ==
    /\ wrapPc = "lines"
    /\ IF wrapLines = <<>>
       THEN /\ wrapped' = Join(wrapResult) /\ wrapPc' = "done"
            /\ UNCHANGED <<wrapLines, wrapRunes, wrapResult>>
       ELSE /\ wrapLines' = Tail(wrapLines)
            /\ IF Width(Head(wrapLines)) <= wrapWidth
               THEN /\ wrapResult' = Append(wrapResult, Head(wrapLines))
                    /\ UNCHANGED <<wrapRunes, wrapPc>>
               ELSE /\ wrapRunes' = Head(wrapLines) /\ wrapPc' = "runes"
                    /\ UNCHANGED wrapResult
            /\ UNCHANGED wrapped
    /\ LoopFrame

\* for len(runes) > 0: one piece is appended and cut off
WrapSlice ==
    /\ wrapPc = "runes"
    /\ IF Len(wrapRunes) > 0
       THEN LET end == SliceEnd(wrapRunes, wrapWidth)
            IN  /\ wrapResult' = Append(wrapResult, SubSeq(wrapRunes, 1, end))
                /\ wrapRunes' = SubSeq(wrapRunes, end + 1, Len(wrapRunes))
                /\ UNCHANGED wrapPc
       ELSE /\ wrapPc' = "lines"
            /\ UNCHANGED <<wrapRunes, wrapResult>>
    /\ UNCHANGED <<wrapped, wrapLines>>
    /\ LoopFrame

InitLoop ==
    /\ HallIdle /\ LayoutIdle /\ ShellIdle /\ ComposerIdle /\ PollIdle
    /\ wrapLine \in WrapTexts /\ wrapWidth \in LoopWidths /\ wrapped = ""
    /\ LoopIdle

NextLoop == WrapCall \/ WrapNextLine \/ WrapSlice

\* the function runs on: no statement of it waits for anything
SpecLoop == InitLoop /\ [][NextLoop]_vars /\ WF_vars(NextLoop)

(***************************************************************************)
(* The polling loop.  pending counts the commands whose result message has *)
(* not been delivered yet: message fetches (the fetchMsgs half of          *)
(* loadMessages), poll timers (hallTickCmd) and sends (sendRoomMessage).   *)
(* The presence fetch and the reaction fetch issued along with them        *)
(* schedule nothing when they return and are left out.                     *)
(***************************************************************************)
\* a fetch result that schedules the next poll only when the fetch succeeded
TicksAfterFetch_StopsOnError(failed) == IF failed THEN 0 ELSE 1

\* timers the hallMessagesMsg handler starts: return m, hallTickCmd() on
\* error, cmds := []tea.Cmd{hallTickCmd()} on success
TicksAfterFetch(failed) == 1

\* fetches a call of loadMessages starts
FetchesOfLoadMessages == 1

\* pages of at most one message
PollBatches == {b \in Batches : Len(b) <= 1}

\* hallMessagesMsg without error, the page drawn from batches
FetchOk(batches) ==
    /\ pending.fetch > 0
    /\ HallMessagesMerge(batches)
    /\ pending' = [pending EXCEPT !.fetch = @ - 1, !.tick = @ + TicksAfterFetch(FALSE)]
    /\ issued' = FALSE
    /\ UNCHANGED <<failures, sync, sync>>
    /\ UNCHANGED <<composerVars, wrapVars, layoutVars, shellVars>>

PollMessagesOk == FetchOk(PollBatches)

\* hallMessagesMsg with msg.err != nil
PollMessagesErr ==
    /\ pending.fetch > 0
    /\ HallMessagesFail
    /\ pending' = [pending EXCEPT !.fetch = @ - 1, !.tick = @ + TicksAfterFetch(TRUE)]
    /\ issued' = FALSE
    /\ failures' = IF failures < MaxFailures THEN failures + 1 ELSE failures
    /\ UNCHANGED sync
    /\ UNCHANGED <<composerVars, wrapVars, layoutVars, shellVars>>

\* hallTickMsg: return m, m.loadMessages()
HallTick ==
    /\ pending.tick > 0
    /\ pending' = [pending EXCEPT !.tick = @ - 1, !.fetch = @ + FetchesOfLoadMessages]
    /\ issued' = TRUE
    /\ step' = "tick"
    /\ UNCHANGED <<failures, sync, sync>>
    /\ UNCHANGED <<hallVars, inserted, evicted, redelivered, lastSnapshot, composerVars, wrapVars, layoutVars, shellVars>>

\* hallSendMsg without error: clear the status line and reload
HallSendOk ==
    /\ pending.send > 0
    /\ status' = ""
    /\ pending' = [pending EXCEPT !.send = @ - 1, !.fetch = @ + FetchesOfLoadMessages]
    /\ issued' = TRUE
    /\ step' = "send"
    /\ UNCHANGED <<failures, sync, sync>>
    /\ UNCHANGED <<input, mentionActive, mentionQuery, mentionMatches, mentionCursor,
                   projectActive, projectQuery, projectMatches, projectCursor,
                   inputFocused, allLogins, myProjects, cmds, keyMsg, before>>
    /\ UNCHANGED <<hallVars, inserted, evicted, redelivered, lastSnapshot, wrapVars, layoutVars, shellVars>>

\* hallSendMsg with msg.err != nil: show the error, issue nothing
HallSendErr ==
    /\ pending.send > 0
    /\ status' = "error: send failed"
    /\ pending' = [pending EXCEPT !.send = @ - 1]
    /\ issued' = FALSE
    /\ step' = "send"
    /\ UNCHANGED <<failures, sync, sync>>
    /\ UNCHANGED <<input, mentionActive, mentionQuery, mentionMatches, mentionCursor,
                   projectActive, projectQuery, projectMatches, projectCursor,
                   inputFocused, allLogins, myProjects, cmds, keyMsg, before>>
    /\ UNCHANGED <<hallVars, inserted, evicted, redelivered, lastSnapshot, wrapVars, layoutVars, shellVars>>

\* after Init has issued loadMessages, with up to MaxSends sends under way
InitPoll ==
    /\ HallIdle /\ LayoutIdle /\ ShellIdle /\ ComposerIdle /\ WrapIdle
    /\ \E sends \in 0..MaxSends :
          pending = [fetch |-> FetchesOfLoadMessages, tick |-> 0, send |-> sends]
    /\ issued = FALSE
    /\ failures = 0
    /\ sync = NoSync

NextPoll ==
    \/ PollMessagesOk
    \/ PollMessagesErr
    \/ HallTick
    \/ HallSendOk
    \/ HallSendErr

\* a request under way returns, with or without error
FetchReturns == PollMessagesOk \/ PollMessagesErr

\* tea.Tick fires every timer it was asked for, and every request returns
SpecPoll ==
    /\ InitPoll
    /\ [][NextPoll]_vars
    /\ WF_vars(HallTick)
    /\ WF_vars(FetchReturns)

(***************************************************************************)
(* The hall while text is being typed: pages and presence snapshots arrive *)
(* or fail to arrive between the key events.                               *)
(***************************************************************************)
FailKeys == {Runes("a"), Named("KeyBackspace")}

NextFail ==
    \/ HallMessagesOk
    \/ HallMessagesErr
    \/ \E logins \in PresenceSlices : HallPresenceOk(logins, Len(logins.elems))
    \/ HallPresenceErr
    \/ \E msg \in FailKeys : KeyMsg(msg)

SpecFail == Init /\ [][NextFail]_vars

(***************************************************************************)
(* hallReactionsMsg: reaction summaries are written onto the entries whose *)
(* ID is a key of the result.  The result is a function from IDs to        *)
(* summaries, its DOMAIN being the keys of the Go map.                     *)
(***************************************************************************)
Fire == <<[Emoji |-> "fire", Count |-> 3]>>

Sparkle == <<[Emoji |-> "fire", Count |-> 3], [Emoji |-> "sparkles", Count |-> 1]>>

ReactionKeys == {UUIDString(i) : i \in MsgIDs}

ReactionResults == UNION {[ids -> {Fire, Sparkle}] : ids \in SUBSET ReactionKeys}

\* a merge that wipes the summary of the entries the result does not name
ApplyReactions_ClearsOthers(ms, reactions) ==
    [i \in DOMAIN ms |->
        [ms[i] EXCEPT !.Reactions = IF ms[i].ID \in DOMAIN reactions
                                    THEN reactions[ms[i].ID] ELSE <<>>]]

\* for i := range m.messages: if rcs, ok := msg.reactions[ID]; ok { Reactions = rcs }
ApplyReactions(ms, reactions) ==
    [i \in DOMAIN ms |->
        IF ms[i].ID \in DOMAIN reactions
        THEN [ms[i] EXCEPT !.Reactions = reactions[ms[i].ID]]
        ELSE ms[i]]

\* msg.err == nil && msg.reactions != nil
HallReactionsOk(reactions) ==
    /\ messages' = ApplyReactions(messages, reactions)
    /\ UNCHANGED <<seenIDs, presenceLogins, presenceCount, myLogin, err, connected>>
    /\ step' = "reactions"
    /\ redelivered' = FALSE
    /\ UNCHANGED <<inserted, evicted, lastSnapshot>>
    /\ UNCHANGED <<composerVars, wrapVars, pollVars, layoutVars, shellVars>>

\* msg.err != nil: nothing changes
HallReactionsErr ==
    /\ UNCHANGED hallVars
    /\ step' = "reactions failed"
    /\ redelivered' = FALSE
    /\ UNCHANGED <<inserted, evicted, lastSnapshot>>
    /\ UNCHANGED <<composerVars, wrapVars, pollVars, layoutVars, shellVars>>

(***************************************************************************)
(* tea.WindowSizeMsg: the shell hands the hall its height.                 *)
(***************************************************************************)
Heights == 0..MaxHeight

WindowSizeMsg(h) ==
    /\ height' = h
    /\ step' = "resize"
    /\ redelivered' = FALSE
    /\ UNCHANGED scroll
    /\ UNCHANGED <<hallVars, inserted, evicted, lastSnapshot>>
    /\ UNCHANGED <<composerVars, wrapVars, pollVars, shellVars>>

(***************************************************************************)
(* renderMessages: the lines of the window, clipped to the viewport.  A    *)
(* rendered line is a record of its kind and its text; a shipped card      *)
(* takes three lines, every other entry one (bodies fit the width).        *)
(***************************************************************************)
Line(kind, text) == [kind |-> kind, text |-> text]

Blank == Line("blank", "")

Blanks(n) == [i \in 1..n |-> Blank]

renderMessage(msg) ==
    IF msg.IsSystem THEN <<Line("system", msg.Body)>>
    ELSE IF msg.Kind = "ship"
    THEN <<Line("card top", msg.ID), Line("card body", msg.Body), Line("card bottom", msg.ID)>>
    ELSE <<Line("message", msg.Body)>>

RECURSIVE AllLines(_)
AllLines(ms) ==
    IF Len(ms) = 0 THEN <<>>
    ELSE renderMessage(ms[1])
             \o (IF Len(ms[1].Reactions) > 0 THEN <<Line("reactions", ms[1].ID)>> ELSE <<>>)
             \o AllLines(Tail(ms))

\* a renderer that counts the offset from the top of the window
renderMessages_FromTop(ms, sc, viewportHeight) ==
    LET allLines == AllLines(ms)
        visible  == SubSeq(allLines, sc + 1,
                           IF sc + viewportHeight > Len(allLines) THEN Len(allLines)
                           ELSE sc + viewportHeight)
    IN  Blanks(viewportHeight - Len(visible)) \o visible

renderMessages(ms, sc, viewportHeight) ==
    IF Len(ms) = 0 THEN <<>>
    ELSE LET allLines  == AllLines(ms)
             total     == Len(allLines)
             maxScroll == IF total - viewportHeight < 0 THEN 0 ELSE total - viewportHeight
             clamped   == IF sc > maxScroll THEN maxScroll ELSE sc
             end0      == total - clamped
             start     == IF end0 - viewportHeight < 0 THEN 0 ELSE end0 - viewportHeight
             end       == IF end0 > total THEN total ELSE end0
             visible   == SubSeq(allLines, start + 1, end)
         IN  Blanks(viewportHeight - Len(visible)) \o visible

(***************************************************************************)
(* The message log while pages and reactions arrive, the terminal is       *)
(* resized and the user leaves the input to scroll.                        *)
(***************************************************************************)
LogKeys == {Named("KeyEsc"), Runes("j"), Runes("k")}

\* results that put a reaction line under the first or under the shipped entry
LogReactions == {[id \in {UUIDString(i)} |-> Fire] : i \in {1, NumMsgs}}

NextLog ==
    \/ HallMessagesMerge(PollBatches)
          /\ UNCHANGED <<composerVars, wrapVars, pollVars, layoutVars, shellVars>>
    \/ \E reactions \in LogReactions : HallReactionsOk(reactions)
    \/ \E h \in Heights : WindowSizeMsg(h)
    \/ \E msg \in LogKeys : KeyMsg(msg)

SpecLog == Init /\ [][NextLog]_vars

(***************************************************************************)
(* The window while pages arrive and reaction fetches return or fail.      *)
(***************************************************************************)
NextReact ==
    \/ HallMessagesMerge(PollBatches)
          /\ UNCHANGED <<composerVars, wrapVars, pollVars, layoutVars, shellVars>>
    \/ \E reactions \in ReactionResults : HallReactionsOk(reactions)
    \/ HallReactionsErr

SpecReact == Init /\ [][NextReact]_vars

(***************************************************************************)
(* View: what the message area shows, by the chain of tests at its head.   *)
(***************************************************************************)
MessageArea(ms, e, me, conn) ==
    IF e # "" /\ Len(ms) = 0 THEN "could not connect"
    ELSE IF me = "" /\ ~conn THEN "connecting..."
    ELSE IF Len(ms) = 0 /\ e = "" THEN "no messages yet"
    ELSE "messages"

(***************************************************************************)
(* View: the lines of the hall, top to bottom.  Every line but the status  *)
(* line ends with a newline in the string View returns; the status line,   *)
(* when there is one, is written last and without one.                     *)
(***************************************************************************)
CountNewlines(s) == Cardinality(NewlineAt(s))

TrimPrefix(s, prefix) == IF HasPrefix(s, prefix) THEN SubSeq(s, Len(prefix) + 1, Len(s)) ELSE s

slashCommands == <<"/build <title>", "/b <update>", "/ship <title>", "/seek <question>">>

\* the commands that countSlashHints counts and renderSlashHints writes
SlashHints(text) ==
    LET prefix   == TrimPrefix(text, "/")
        Hint(sc) == prefix = "" \/ HasPrefix(TrimPrefix(sc, "/"), prefix)
    IN  SelectSeq(slashCommands, Hint)

countSlashHints == Len(SlashHints(input))

renderSlashHints == [i \in 1..Len(SlashHints(input)) |-> Line("hint", SlashHints(input)[i])]

\* limit := len(matches); if limit > 5 { limit = 5 }
PopupLimit(n) == IF n > 5 THEN 5 ELSE n

renderMentionPopup ==
    [i \in 1..PopupLimit(Len(mentionMatches)) |-> Line("mention", mentionMatches[i])]

renderProjectPopup ==
    [i \in 1..PopupLimit(Len(projectMatches)) |-> Line("project", projectMatches[i].Name)]

\* renderChatInput: the buffer after the name, one line for each line of it
renderInput == [i \in 1..Len(Split(input)) |-> Line("input", Split(input)[i])]

chrome ==
    1 + CountNewlines(input)
      + (IF status # "" THEN 1 ELSE 0)
      + (IF HasPrefix(input, "/") /\ inputFocused THEN countSlashHints ELSE 0)
      + (IF mentionActive /\ Len(mentionMatches) > 0
         THEN PopupLimit(Len(mentionMatches)) ELSE 0)
      + (IF projectActive /\ Len(projectMatches) > 0
         THEN PopupLimit(Len(projectMatches)) ELSE 0)

viewportHeight == IF height - chrome < 2 THEN 2 ELSE height - chrome

Banner(text) == Blanks(viewportHeight - 1) \o <<Line("banner", text)>>

View ==
    LET shown == MessageArea(messages, err, myLogin, connected)
    IN  (IF shown = "messages" THEN renderMessages(messages, scroll, viewportHeight)
         ELSE Banner(shown))
        \o (IF HasPrefix(input, "/") /\ inputFocused THEN renderSlashHints ELSE <<>>)
        \o (IF mentionActive /\ Len(mentionMatches) > 0 THEN renderMentionPopup ELSE <<>>)
        \o (IF projectActive /\ Len(projectMatches) > 0 THEN renderProjectPopup ELSE <<>>)
        \o renderInput
        \o (IF status # "" THEN <<Line("status", status)>> ELSE <<>>)

(***************************************************************************)
(* The layout: the composer opens its popups, grows to several lines and   *)
(* shows a status while the terminal is resized and fetches return.        *)
(***************************************************************************)
LayoutKeys ==
    {Runes(t) : t \in {"/", "b", "@", "#"}}
        \cup {Named(t) : t \in {"KeyEnter", "KeyEsc", "KeyBackspace"}}
        \cup {AltEnter}

\* more registered logins than a popup shows
LayoutLogins == <<"alice", "Az", "bob", "carol", "dave", "erin">>

LayoutProjects == <<[Name |-> "az app"], [Name |-> "my app"]>>

LayoutHeights == {MaxHeight, FullHeight}

LayoutBatches == {b \in Batches : Len(b) = 0 \/ (Len(b) = 1 /\ b[1].ID = 1)}

NextLayout ==
    \/ \E msg \in LayoutKeys : KeyMsg(msg)
    \/ HallLoginsMsg(LayoutLogins)
    \/ HallProjectsOk(LayoutProjects)
    \/ \E h \in LayoutHeights : WindowSizeMsg(h)
    \/ HallMessagesMerge(LayoutBatches)
          /\ UNCHANGED <<composerVars, wrapVars, pollVars, layoutVars, shellVars>>
    \/ HallMessagesErr

SpecLayout == Init /\ [][NextLayout]_vars

(***************************************************************************)
(* hallAnimTickMsg: the entrance animation of the rich entries.  Every     *)
(* handling of the message returns hallAnimTickCmd(), so the next tick is  *)
(* always under way.                                                       *)
(***************************************************************************)
hallAnimFrames == 20

\* a counter that runs past the last frame
AdvanceFrame_NoReset(f) == IF f > 0 /\ f <= hallAnimFrames THEN f + 1 ELSE f

\* if f > 0 && f <= hallAnimFrames { animFrame++; past the last frame: 0 }
AdvanceFrame(f) ==
    IF f > 0 /\ f <= hallAnimFrames
    THEN (IF f + 1 > hallAnimFrames THEN 0 ELSE f + 1)
    ELSE f

HallAnimTick ==
    /\ messages' = [i \in DOMAIN messages |->
                       [messages[i] EXCEPT !.animFrame = AdvanceFrame(@)]]
    /\ UNCHANGED <<seenIDs, presenceLogins, presenceCount, myLogin, err, connected>>
    /\ step' = "anim"
    /\ redelivered' = FALSE
    /\ UNCHANGED <<inserted, evicted, lastSnapshot>>
    /\ UNCHANGED <<composerVars, wrapVars, pollVars, layoutVars, shellVars>>

NextAnim ==
    \/ HallMessagesMerge(PollBatches)
          /\ UNCHANGED <<composerVars, wrapVars, pollVars, layoutVars, shellVars>>
    \/ HallAnimTick

\* tea.Tick delivers every animation tick it was asked for
SpecAnim == Init /\ [][NextAnim]_vars /\ WF_vars(HallAnimTick)

(***************************************************************************)
(* The mention popup under the cursor keys, with more known logins than    *)
(* the popup has rows.                                                     *)
(***************************************************************************)
\* the rows renderMentionPopup draws as the selected one (i == m.mentionCursor)
SelectedRows == {i \in 1..PopupLimit(Len(mentionMatches)) : i - 1 = mentionCursor}

PopupKeys ==
    {Runes("@"), Runes("a")}
        \cup {Named(t) : t \in {"KeyUp", "KeyDown", "KeyTab", "KeyEsc", "KeyBackspace"}}

PopupLogins == {<<>>, <<"alice", "bob">>, LayoutLogins}

NextPopup ==
    \/ \E msg \in PopupKeys : KeyMsg(msg)
    \/ \E logins \in PopupLogins : HallLoginsMsg(logins)

SpecPopup == Init /\ [][NextPopup]_vars

(***************************************************************************)
(* The shell.  App.Update hands a key event to the help overlay, to the    *)
(* peek overlay, to its own shortcuts or to the view that is shown, and    *)
(* every other message to the view that is shown (to the peek overlay      *)
(* while that is open).  Of the views other than the hall only what        *)
(* reaches the shell is kept: the view shown and the showPeekMsg the You   *)
(* view asks for.  helpCursor and the views' own fields are left out.      *)
(***************************************************************************)
MaxInFlight == 2  \* results the hall may be waiting for when a key is handled
MaxPeeks == 1     \* showPeekMsg commands under way

\* keys the shell gives a meaning (runes the composer takes as text), the
\* You view's peek key, and the keys that focus and leave the composer
ShellKeys ==
    {Runes(t) : t \in {"q", "h", "2", "4", "n", "p"}}
        \cup {Named("KeyEsc"), Named("KeyEnter")}

\* App.isEditing; no key of ShellKeys takes youModel.wsState off wsNormal
isEditing ==
    CASE view = "viewCreate" -> TRUE
      [] view = "viewHall"   -> inputFocused
      [] OTHER               -> FALSE

\* the sends among the commands a handler returned
SendsOf(c) == Len(SelectSeq(c, LAMBDA x : x.cmd = "sendRoomMessage"))

InFlight(p) == p.fetch + p.tick + p.send

HallUntouched ==
    UNCHANGED <<hallVars, inserted, evicted, redelivered, lastSnapshot,
                composerVars, wrapVars, layoutVars>>

\* the help overlay captures the key
HelpKey(key) ==
    /\ helpOpen' = (key \notin {"h", "esc"})
    /\ quitting' = (key \in {"q", "ctrl+c"})
    /\ UNCHANGED <<view, peekOpen, peeks>>
    /\ step' = "help"
    /\ HallUntouched /\ UNCHANGED pollVars

\* the peek overlay captures the key: peekModel.Update closes on esc and q
PeekKey(key) ==
    /\ peekOpen' = (key \notin {"esc", "q"})
    /\ UNCHANGED <<view, helpOpen, peeks, quitting>>
    /\ step' = "peek"
    /\ HallUntouched /\ UNCHANGED pollVars

\* the keys of the switch under !a.isEditing() that return
shortcuts == {"h", "q", "ctrl+c", "1", "2", "3", "4"}

\* hallModel.Init starts with loadMessages
HallInit(p) == [p EXCEPT !.fetch = @ + FetchesOfLoadMessages]

\* a global key: help, quit or another view; switching to the hall runs
\* a.hall.Init() again
GlobalKey(key) ==
    /\ helpOpen' = (key = "h")
    /\ quitting' = (key \in {"q", "ctrl+c"})
    /\ view' = CASE key = "1" -> "viewHome"
                 [] key = "2" -> "viewHall"
                 [] key = "4" -> "viewYou"
                 [] OTHER     -> view
    /\ pending' = IF key = "2" /\ view # "viewHall" THEN HallInit(pending) ELSE pending
    /\ issued' = (key = "2" /\ view # "viewHall")
    /\ UNCHANGED <<failures, sync, peekOpen, peeks>>
    /\ step' = "shortcut"
    /\ HallUntouched

\* "n" outside the composer shows the Create view, which then receives the
\* key; esc in the Create view shows the Home view
CreateKey(key) ==
    /\ view' = IF key = "n" THEN "viewCreate" ELSE "viewHome"
    /\ UNCHANGED <<helpOpen, peekOpen, peeks, quitting>>
    /\ step' = "shortcut"
    /\ HallUntouched /\ UNCHANGED pollVars

\* the key reaches hallModel.Update; the sends it returns are under way
HallKey(msg) ==
    /\ HallKeyMsg(msg)
    /\ pending' = [pending EXCEPT !.send = @ + SendsOf(cmds')]
    /\ issued' = FALSE
    /\ UNCHANGED <<failures, sync, shellVars>>

\* the key reaches youModel.Update: "p" asks for the peek of the selected
\* card when there is one
YouKey(key) ==
    /\ \E cards \in BOOLEAN :
          peeks' = IF key = "p" /\ cards /\ peeks < MaxPeeks THEN peeks + 1 ELSE peeks
    /\ UNCHANGED <<view, helpOpen, peekOpen, quitting>>
    /\ step' = "elsewhere"
    /\ HallUntouched /\ UNCHANGED pollVars

\* the key reaches homeModel.Update or createModel.Update
OtherKey ==
    /\ step' = "elsewhere"
    /\ HallUntouched /\ UNCHANGED <<pollVars, shellVars>>

\* tea.KeyMsg in App.Update
AppKey(msg) ==
    LET key == KeyString(msg)
    IN  /\ ~quitting
        /\ IF helpOpen THEN HelpKey(key)
           ELSE IF peekOpen THEN PeekKey(key)
           ELSE IF ~isEditing /\ key \in shortcuts THEN GlobalKey(key)
           ELSE IF ~isEditing /\ key = "n" THEN CreateKey(key)
           ELSE IF key = "esc" /\ view = "viewCreate" THEN CreateKey(key)
           ELSE IF view = "viewHall" THEN HallKey(msg)
           ELSE IF view = "viewYou" THEN YouKey(key)
           ELSE OtherKey
        /\ InFlight(pending') <= MaxInFlight

\* showPeekMsg: the overlay opens over whatever view is shown
ShowPeekMsg ==
    /\ ~quitting /\ peeks > 0
    /\ peekOpen' = TRUE /\ peeks' = peeks - 1
    /\ UNCHANGED <<view, helpOpen, quitting>>
    /\ step' = "peek"
    /\ HallUntouched /\ UNCHANGED pollVars

\* a message other than a key reaches hallModel.Update
Routed == view = "viewHall" /\ ~peekOpen

\* a hall message that arrives while another view or the peek overlay
\* receives the messages: that model ignores it, and with it go the
\* commands the hall would have returned
Dropped(kind) ==
    /\ pending[kind] > 0
    /\ pending' = [pending EXCEPT ![kind] = @ - 1]
    /\ issued' = FALSE
    /\ step' = "dropped"
    /\ UNCHANGED <<failures, sync, shellVars>>
    /\ HallUntouched

NextShell ==
    \/ \E msg \in ShellKeys : AppKey(msg)
    \/ ShowPeekMsg

SpecShell == Init /\ [][NextShell]_vars

(***************************************************************************)
(* The polling loop under the shell: the hall is shown, left and shown     *)
(* again while timers fire and fetches and sends return.                   *)
(***************************************************************************)
\* the keys that show the hall and the You view, leave and focus the
\* composer and send what it holds
CycleKeys == {Runes("2"), Runes("4"), Named("KeyEsc"), Named("KeyEnter")}

\* pages without a message
CycleBatches == {<<>>}

\* meLoadedMsg: the shell hands it to the hall whatever view is shown
ShellMeLoaded == ~quitting /\ MeLoadedOk

\* a result of the hall's commands is delivered
ShellResult ==
    /\ ~quitting
    /\ IF Routed
       THEN FetchOk(CycleBatches) \/ PollMessagesErr \/ HallTick \/ HallSendOk \/ HallSendErr
       ELSE \E kind \in {"fetch", "tick", "send"} : Dropped(kind)

NextCycle ==
    \/ \E msg \in CycleKeys : AppKey(msg)
    \/ ShellMeLoaded
    \/ ShellResult

SpecCycle == Init /\ [][NextCycle]_vars

(***************************************************************************)
(* Vocabulary of the properties.                                           *)
(***************************************************************************)
\* the window is in non-decreasing order of creation time
Sorted(s) == \A i, j \in DOMAIN s : i < j => s[i].CreatedAt <= s[j].CreatedAt

\* the creation time of the backend message whose ID prints as id
TimeOfID(id) == RoomMessage(CHOOSE i \in MsgIDs : UUIDString(i) = id).CreatedAt

\* the ID fields of every entry of a window, system entries included
IDFields(s) == {s[i].ID : i \in DOMAIN s}

(***************************************************************************)
(* C1.  No two entries of the window carry the same message ID: a message  *)
(* delivered by two fetches, or twice in one page, is held once.           *)
(***************************************************************************)
C1_NoDuplicateIDs ==
    \A i, j \in DOMAIN messages :
        (i # j /\ ~messages[i].IsSystem /\ ~messages[j].IsSystem)
            => messages[i].ID # messages[j].ID

\* a merge that was handed an already-seen message and holds exactly one entry
C1_Witness ==
    /\ step = "messages"
    /\ redelivered
    /\ Len(messages) = 1
    /\ ~messages[1].IsSystem

(***************************************************************************)
(* C2.  Directly after a merge, once more than Cap distinct messages have  *)
(* been merged: the window holds exactly Cap entries, all of them merged   *)
(* messages, no merged message outside the window is more recent than one  *)
(* inside it, and the seen-ID set is the set of the held entries' IDs.     *)
(***************************************************************************)
C2_RetentionAfterOverflow ==
    (step = "messages" /\ Cardinality(inserted) > Cap) =>
        /\ Len(messages) = Cap
        /\ \A i \in DOMAIN messages : ~messages[i].IsSystem /\ messages[i].ID \in inserted
        /\ \A i \in DOMAIN messages : \A id \in inserted \ HeldIDs(messages) :
               TimeOfID(id) <= messages[i].CreatedAt
        /\ seenIDs = IDFields(messages)

\* a merge has just cut the window after more than Cap distinct messages
C2_Witness ==
    /\ step = "messages"
    /\ Cardinality(inserted) > Cap
    /\ evicted # {}
    /\ Len(messages) = Cap

(***************************************************************************)
(* C4.  Directly after every successful merge the window is sorted in      *)
(* non-decreasing order of creation time, whatever order pages arrive in.  *)
(***************************************************************************)
C4_SortedAfterMerge == step = "messages" => Sorted(messages)

\* a merge has just left a full window whose entries differ in creation time
C4_Witness ==
    /\ step = "messages"
    /\ Len(messages) = Cap
    /\ messages[1].CreatedAt < messages[Cap].CreatedAt

(***************************************************************************)
(* C3.  The window never holds more than Cap entries, in any reachable     *)
(* state, presence steps and the states between two merges included.       *)
(***************************************************************************)
C3_WindowWithinCap == Len(messages) <= Cap

(***************************************************************************)
(* C5.  Once a merge has happened the window is in non-decreasing order of *)
(* creation time in every later state, presence steps included.            *)
(***************************************************************************)
C5_SortedAtAllTimes == connected => Sorted(messages)

(***************************************************************************)
(* C6.  In every reachable state the seen-ID set is exactly the set of IDs *)
(* of the held messages: no stale ID, no missing ID, and no key that comes *)
(* from an ID-less system entry.                                           *)
(***************************************************************************)
C6_SeenIsHeld == seenIDs = HeldIDs(messages)

\* what the code does keep: the seen-ID set is the held IDs, give or take
\* the empty key of a system entry that survived a trim
C6_SeenIsHeldButEmptyKey == seenIDs \ {""} = HeldIDs(messages)

(***************************************************************************)
(* C7.  A merge never changes the relative order of two entries that were  *)
(* in the window before it and are still in it afterwards (stated for two  *)
(* entries that differ in creation time: sort.Slice is free to swap two    *)
(* that tie, so the order of those is lost in any case); a window one      *)
(* short of Cap that receives one new message holds Cap entries, all the   *)
(* earlier ones among them, and a full window that receives one stays at   *)
(* Cap and loses exactly one entry, an oldest one.                         *)
(***************************************************************************)
\* the position of an entry that occurs exactly once in s
PosOf(s, e) == CHOOSE i \in DOMAIN s : s[i] = e

Count(s, e) == Cardinality({i \in DOMAIN s : s[i] = e})

OccursOnce(s, e) == Count(s, e) = 1

SameEntries(a, b) == Len(a) = Len(b) /\ \A e \in Range(a) : Count(a, e) = Count(b, e)

RemoveAt(s, i) == SubSeq(s, 1, i - 1) \o SubSeq(s, i + 1, Len(s))

\* the entries of new that old already held
PriorKept(old, new) ==
    LET WasHeld(e) == e.IsSystem \/ e.ID \in HeldIDs(old)
    IN  SelectSeq(new, WasHeld)

\* new holds the entries of old but one, and that one is no newer than any other
OldestEvicted(old, new) ==
    \E i \in DOMAIN old :
        /\ \A j \in DOMAIN old : old[i].CreatedAt <= old[j].CreatedAt
        /\ SameEntries(RemoveAt(old, i), PriorKept(old, new))

RelativeOrderKept(old, new) ==
    \A a, b \in Range(old) :
        (/\ OccursOnce(old, a) /\ OccursOnce(old, b)
         /\ OccursOnce(new, a) /\ OccursOnce(new, b)
         /\ a.CreatedAt # b.CreatedAt
         /\ PosOf(old, a) < PosOf(old, b))
            => PosOf(new, a) < PosOf(new, b)

\* this step brought exactly one message into the window
OneArrived == Cardinality(HeldIDs(messages') \ HeldIDs(messages)) = 1

C7_MergeKeepsOrder ==
    [][step' = "messages" =>
         /\ RelativeOrderKept(messages, messages')
         /\ (Len(messages) = Cap - 1 /\ OneArrived)
                => /\ Len(messages') = Cap
                   /\ SameEntries(messages, PriorKept(messages, messages'))
         /\ (Len(messages) = Cap /\ OneArrived)
                => /\ Len(messages') = Cap
                   /\ OldestEvicted(messages, messages')]_vars

(***************************************************************************)
(* C8.  An entry the retention cap has evicted from the window is never    *)
(* held again, even when a later fetch delivers the same message again.    *)
(***************************************************************************)
C8_EvictedNeverHeld == evicted \cap HeldIDs(messages) = {}

(***************************************************************************)
(* C9.  Every successful presence snapshot after the first appends exactly *)
(* one "joined" entry per login that is in it and was not in the previous  *)
(* snapshot, exactly one "left" entry per login that was in the previous   *)
(* one and is not in it, and nothing for a login in both or for the local  *)
(* identity.                                                               *)
(***************************************************************************)
\* the entries a step added at the end of the window
Appended(old, new) == SubSeq(new, Len(old) + 1, Len(new))

CountBody(s, body) == Cardinality({i \in DOMAIN s : s[i].IsSystem /\ s[i].Body = body})

ExactDiff(app, prev, cur, me) ==
    /\ \A i \in DOMAIN app : app[i].IsSystem
    /\ \A l \in Logins :
          /\ CountBody(app, l \o " joined") = IF l \in cur \ prev /\ l # me THEN 1 ELSE 0
          /\ CountBody(app, l \o " left") = IF l \in prev \ cur /\ l # me THEN 1 ELSE 0
    /\ Len(app) = Cardinality(((cur \ prev) \cup (prev \ cur)) \ {me})

C9_PresenceDiffExact ==
    [][(step' = "presence" /\ lastSnapshot.had) =>
         /\ SubSeq(messages', 1, Len(messages)) = messages
         /\ ExactDiff(Appended(messages, messages'), lastSnapshot.logins,
                      lastSnapshot'.logins, myLogin)]_vars

(***************************************************************************)
(* C10.  The first successful presence snapshot appends nothing, whatever  *)
(* it holds; every later one is compared with the snapshot of the fetch    *)
(* that succeeded just before it, and becomes the stored snapshot.         *)
(***************************************************************************)
DiffBodies(prev, cur, me) ==
    {l \o " joined" : l \in (cur \ prev) \ {me}} \cup {l \o " left" : l \in (prev \ cur) \ {me}}

BodiesOf(s) == {s[i].Body : i \in DOMAIN s}

C10_FirstSkippedLaterDiffed ==
    [][step' = "presence" =>
         /\ ~lastSnapshot.had => messages' = messages
         /\ lastSnapshot.had =>
                BodiesOf(Appended(messages, messages'))
                    = DiffBodies(lastSnapshot.logins, lastSnapshot'.logins, myLogin)
         /\ Range(presenceLogins'.elems) = lastSnapshot'.logins]_vars

(***************************************************************************)
(* Vocabulary of the composer's properties.                                *)
(***************************************************************************)
InNormal == ~mentionActive /\ ~projectActive

InSubMode == mentionActive \/ projectActive

\* the last step was a key event
KeyStepDone == step \in {"key", "enter", "tab"}

(***************************************************************************)
(* C11.  In every reachable state the composition buffer holds at most     *)
(* maxInputLen runes, whatever keys were pressed in whatever mode.         *)
(***************************************************************************)
C11_BufferWithinCap == RuneCountInString(input) <= maxInputLen

\* what the code does keep: a key handled in Normal mode never takes a
\* buffer within the cap beyond it
C11_NormalModeKeepsCap ==
    [][(InNormal /\ RuneCountInString(input) <= maxInputLen /\ step' \in {"key", "enter", "tab"})
           => RuneCountInString(input') <= maxInputLen]_vars

(***************************************************************************)
(* Vocabulary of the editor's properties.                                  *)
(***************************************************************************)
\* typed or pasted text: runes, no Alt held
IsText(msg) == msg.Type = "KeyRunes" /\ ~msg.Alt /\ msg.Runes # ""

\* several runes delivered as one key event
IsPaste(msg) == IsText(msg) /\ Len(msg.Runes) > 1

IsBackspace(msg) == msg.Type = "KeyBackspace" /\ ~msg.Alt

\* a key with a name, or any key with a modifier, other than Backspace
IsNamedOrControl(msg) == ~IsText(msg) /\ ~IsBackspace(msg)

LastRune(s) == SubSeq(s, Len(s), Len(s))

\* what a paste has to leave in a buffer of at most maxInputLen runes
Clamped(text, paste) ==
    IF Len(text) >= maxInputLen THEN text
    ELSE IF Len(text) + Len(paste) > maxInputLen
         THEN text \o SubSeq(paste, 1, maxInputLen - Len(text))
         ELSE text \o paste

(***************************************************************************)
(* C12.  After every multi-rune paste the buffer is the old buffer         *)
(* followed by the whole paste when it fits, by the longest prefix of the  *)
(* paste that fits (so that the buffer holds exactly maxInputLen runes)    *)
(* when it does not, and the old buffer when that was already full: a      *)
(* paste is never rejected while capacity remains.                         *)
(***************************************************************************)
C12_PasteClamped ==
    (step = "edit" /\ IsPaste(keyMsg)) => input = Clamped(before.input, keyMsg.Runes)

\* what the code does keep: the same, for a paste whose text isNamedKey does
\* not take for the name of a key
C12_PasteClampedUnlessNamed ==
    (step = "edit" /\ IsPaste(keyMsg) /\ ~isNamedKey(keyMsg.Runes))
        => input = Clamped(before.input, keyMsg.Runes)

(***************************************************************************)
(* C13.  Backspace on a non-empty buffer removes exactly its last rune,    *)
(* whatever the rune's width in bytes, and keeps every rune before it;     *)
(* Backspace on an empty buffer leaves it empty.                           *)
(***************************************************************************)
C13_BackspaceOneRune ==
    (step = "edit" /\ IsBackspace(keyMsg))
        => IF before.input = "" THEN input = ""
           ELSE /\ Len(input) = Len(before.input) - 1
                /\ before.input = input \o LastRune(before.input)

\* a Backspace has removed a two-byte rune from behind other runes
C13_Witness ==
    /\ step = "edit" /\ IsBackspace(keyMsg)
    /\ Len(before.input) >= 2 /\ LastRune(before.input) = "é"
    /\ input = SubSeq(before.input, 1, Len(before.input) - 1)

(***************************************************************************)
(* C14.  editRune leaves the text as it was for every named or control     *)
(* key, and changes it for every other key event that carries text while   *)
(* the buffer is below the cap: pasted text is appended, never taken for   *)
(* a named key.                                                            *)
(***************************************************************************)
C14_OnlyNamedKeysIgnored ==
    step = "edit"
        => /\ IsNamedOrControl(keyMsg) => input = before.input
           /\ (IsText(keyMsg) /\ Len(before.input) < maxInputLen) => input # before.input

\* what the code does keep: text changes the buffer unless it spells a key's name
C14_IgnoredOnlyIfSpelledAsKey ==
    step = "edit"
        => /\ IsNamedOrControl(keyMsg) => input = before.input
           /\ (IsText(keyMsg) /\ ~isNamedKey(keyMsg.Runes) /\ Len(before.input) < maxInputLen)
                  => input # before.input

(***************************************************************************)
(* C15.  The composer is never in an autocomplete sub-mode without a       *)
(* candidate, and a printable character typed in a sub-mode while the      *)
(* buffer has room stays in the buffer: once the typed characters leave    *)
(* no candidate the composer is back in Normal with all of them kept.      *)
(***************************************************************************)
PrintableRunes == {"a", "z", "é", "@", "#"}

NeverWithoutCandidates ==
    /\ mentionActive => Len(mentionMatches) > 0
    /\ projectActive => Len(projectMatches) > 0

TypedRuneKept(c) ==
    (inputFocused /\ InSubMode /\ RuneCountInString(input) < maxInputLen /\ KeyMsg(Runes(c)))
        => input' = input \o c

C15_SubModeCloses ==
    /\ []NeverWithoutCandidates
    /\ [][\A c \in PrintableRunes : TypedRuneKept(c)]_vars

\* what the code does keep: a one-byte character typed in a sub-mode is kept,
\* and when it leaves no candidate the sub-mode is closed at once
C15_OneByteRuneClosesOrKeeps ==
    [][\A c \in {r \in PrintableRunes : RuneBytes(r) = 1} :
           /\ TypedRuneKept(c)
           /\ (inputFocused /\ InSubMode /\ KeyMsg(Runes(c))) => NeverWithoutCandidates']_vars

\* what the code does keep: the project sub-mode always has a candidate
C15_ProjectHasCandidates == projectActive => Len(projectMatches) > 0

(***************************************************************************)
(* C16.  Tab or Enter in a sub-mode that has a candidate replaces the      *)
(* trailing sigil+query of the buffer, and nothing before it, with the     *)
(* sigil, the selected candidate's name and one space, returns no command  *)
(* and leaves the composer in Normal.                                      *)
(***************************************************************************)
\* the step hands Tab or Enter to a sub-mode that has a candidate
AcceptsMention ==
    step' \in {"tab", "enter"} /\ inputFocused /\ mentionActive /\ Len(mentionMatches) > 0

AcceptsProject ==
    step' \in {"tab", "enter"} /\ inputFocused /\ ~mentionActive /\ projectActive
        /\ Len(projectMatches) > 0

\* the buffer ends with sigil+query, and the step puts sigil+name+space in its place
Replaced(sigil, query, name) ==
    /\ HasSuffix(input, sigil \o query)
    /\ input' = SubSeq(input, 1, Len(input) - Len(query) - 1) \o sigil \o name \o " "
    /\ cmds' = <<>>
    /\ InNormal'

EnterInNormal == step' = "enter" /\ inputFocused /\ InNormal

C18_NoIdentityNoSend ==
    [][(EnterInNormal /\ TrimSpace(input) # "" /\ myLogin = "")
           => (input' = input /\ status' = "run: grimora login" /\ cmds' = <<>>)]_vars

\* Enter was refused: the text is still there, the status asks for a login
C18_Witness ==
    /\ step = "enter" /\ inputFocused /\ InNormal /\ myLogin = ""
    /\ TrimSpace(input) # "" /\ status = "run: grimora login" /\ cmds = <<>>

(***************************************************************************)
(* C19.  A send request is returned only for Enter in Normal mode with a   *)
(* buffer that is not empty once trimmed and a known local identity; then  *)
(* exactly one is returned, it carries the trimmed buffer, and the buffer  *)
(* becomes empty.  Enter in Normal mode on an empty or white-space buffer  *)
(* changes nothing and returns nothing.                                    *)
(***************************************************************************)
IsSend(c) == c.cmd = "sendRoomMessage"

SendsIn(c) == {i \in DOMAIN c : IsSend(c[i])}

SendsOnlyFromModes(allowed) ==
    /\ (step' \in {"key", "enter", "tab"} /\ SendsIn(cmds') # {})
           => (step' = "enter" /\ inputFocused /\ allowed
                   /\ TrimSpace(input) # "" /\ myLogin # "")
    /\ (EnterInNormal /\ TrimSpace(input) # "" /\ myLogin # "")
           => (Cardinality(SendsIn(cmds')) = 1 /\ cmds'[1] = sendRoomMessage(TrimSpace(input))
                   /\ input' = "")
    /\ (EnterInNormal /\ TrimSpace(input) = "") => (Composer' = Composer /\ cmds' = <<>>)

C19_SendOnlyOnEnterInNormal == [][SendsOnlyFromModes(InNormal)]_vars

\* what the code does keep: the same, with the mention sub-mode that has no
\* candidate counted as Normal
C19_SendOnlyOnEnterWithoutCandidates ==
    [][SendsOnlyFromModes(InNormal \/ (mentionActive /\ Len(mentionMatches) = 0 /\ ~projectActive))]_vars

(***************************************************************************)
(* Vocabulary of the wrapping properties.                                  *)
(***************************************************************************)
Ceil(n, d) == (n + d - 1) \div d

RECURSIVE Concat(_)
Concat(pieces) == IF Len(pieces) = 0 THEN "" ELSE pieces[1] \o Concat(Tail(pieces))

\* hardWrap has been applied to one non-empty line at a width of at least 1
WrappedOneLine ==
    /\ step = "wrap"
    /\ wrapWidth >= 1
    /\ wrapLine # ""
    /\ NewlineAt(wrapLine) = {}

OneCellRunes(s) == Width(s) = Len(s)

Pieces == Split(wrapped)

\* C17 (as stated): a line of n runes without a break opportunity, wrapped
\* at a width of at least 1, comes out as exactly ceil(n/width) pieces of at
\* most width runes each, and the pieces concatenated are the line
C17_CeilPieces ==
    WrappedOneLine =>
        /\ Len(Pieces) = Ceil(Len(wrapLine), wrapWidth)
        /\ \A i \in 1..Len(Pieces) : Len(Pieces[i]) <= wrapWidth
        /\ Concat(Pieces) = wrapLine

\* C17 (amended): the pieces concatenated are the line, no piece is empty,
\* every piece is at most width cells wide unless it is a single rune, every
\* piece but the last is followed by a rune that no longer fitted, and when
\* every rune of the line is one cell wide there are exactly ceil(n/width)
\* pieces of at most width runes each
C17_CeilPiecesOfCells ==
    WrappedOneLine =>
        /\ Concat(Pieces) = wrapLine
        /\ \A i \in 1..Len(Pieces) :
              /\ Pieces[i] # ""
              /\ Width(Pieces[i]) <= wrapWidth \/ Len(Pieces[i]) = 1
        /\ \A i \in 1..(Len(Pieces) - 1) :
              Width(Pieces[i] \o SubSeq(Pieces[i + 1], 1, 1)) > wrapWidth
        /\ OneCellRunes(wrapLine) =>
              /\ Len(Pieces) = Ceil(Len(wrapLine), wrapWidth)
              /\ \A i \in 1..Len(Pieces) : Len(Pieces[i]) <= wrapWidth

\* a token of five one-cell runes at width 2 has been cut into three lines
C17_Witness ==
    /\ WrappedOneLine
    /\ wrapLine = "aaaaa"
    /\ wrapWidth = 2
    /\ wrapped = "aa\naa\na"

(***************************************************************************)
(* Vocabulary of the polling properties.                                   *)
(***************************************************************************)
\* a step that consumes a fetch result starts a timer
FetchResultSchedulesTick ==
    pending'.fetch = pending.fetch - 1 => pending'.tick = pending.tick + 1

\* a step that consumes a timer issues a fetch
TickIssuesFetch ==
    pending'.tick = pending.tick - 1 => pending'.fetch = pending.fetch + 1 /\ issued'

C26_BufferEndsWithSigilQuery ==
    /\ mentionActive => HasSuffix(input, "@" \o mentionQuery)
    /\ projectActive => HasSuffix(input, "#" \o projectQuery)

\* the mention sub-mode holds a two-rune query behind its sigil
C26_Witness ==
    /\ mentionActive
    /\ input = "@az"
    /\ mentionQuery = "az"
    /\ mentionMatches = <<"Az">>

(***************************************************************************)
(* Vocabulary of the sub-mode keys.                                        *)
(***************************************************************************)
DropLast(s) == SubSeq(s, 1, Len(s) - 1)

\* the key is handled by the mention branch, or by the project branch
InMention == inputFocused /\ mentionActive

InProject == inputFocused /\ ~mentionActive /\ projectActive

KnownNow == knownLogins(allLogins, presenceLogins, messages, myLogin)

(***************************************************************************)
(* C29.  In a sub-mode Escape returns to Normal with the buffer as it was,  *)
(* a space returns to Normal with the buffer plus one space, and neither    *)
(* returns a send request.                                                  *)
(***************************************************************************)
C29_CancelKeepsText ==
    [][/\ ((InMention \/ InProject) /\ KeyMsg(Named("KeyEsc")))
              => (input' = input /\ InNormal' /\ cmds' = <<>>)
       /\ ((InMention \/ InProject) /\ KeyMsg(Runes(" ")))
              => (input' = input \o " " /\ InNormal' /\ cmds' = <<>>)]_vars

\* a space has cancelled a sub-mode and kept the sigil and the query
C29_Witness ==
    /\ step = "key"
    /\ InNormal
    /\ input = "#a "
    /\ projectQuery = ""
    /\ cmds = <<>>

(***************************************************************************)
(* C30.  In a sub-mode Backspace on an empty query removes the sigil and    *)
(* returns to Normal; on a non-empty query it removes the last rune of the  *)
(* buffer and of the query and filters the candidates by the shorter query. *)
(***************************************************************************)
MentionBackspace(closes) ==
    (InMention /\ KeyMsg(Named("KeyBackspace"))) =>
        IF mentionQuery = ""
        THEN HasSuffix(input, "@") /\ input' = DropLast(input) /\ InNormal'
        ELSE /\ input' = DropLast(input)
             /\ \/ /\ mentionQuery' = DropLast(mentionQuery)
                   /\ mentionMatches' = filterLogins(mentionQuery', KnownNow)
                \/ /\ closes
                   /\ filterLogins(DropLast(mentionQuery), KnownNow) = <<>>
                   /\ InNormal' /\ mentionQuery' = "" /\ mentionMatches' = <<>>

ProjectBackspace(closes) ==
    (InProject /\ KeyMsg(Named("KeyBackspace"))) =>
        IF projectQuery = ""
        THEN HasSuffix(input, "#") /\ input' = DropLast(input) /\ InNormal'
        ELSE /\ input' = DropLast(input)
             /\ \/ /\ projectQuery' = DropLast(projectQuery)
                   /\ projectMatches' = filterProjects(projectQuery', myProjects)
                \/ /\ closes
                   /\ filterProjects(DropLast(projectQuery), myProjects) = <<>>
                   /\ InNormal' /\ projectQuery' = "" /\ projectMatches' = <<>>

C30_BackspaceShortensQuery ==
    [][MentionBackspace(FALSE) /\ ProjectBackspace(FALSE)]_vars

\* amended: in the project sub-mode, when the shorter query leaves no
\* candidate, the sub-mode is closed and its query cleared
C30_BackspaceShortensOrCloses ==
    [][MentionBackspace(FALSE) /\ ProjectBackspace(TRUE)]_vars

\* Backspace has taken the mention query from "az" to "a" and filtered again
C30_Witness ==
    /\ step = "key"
    /\ mentionActive
    /\ input = "@a"
    /\ mentionQuery = "a"
    /\ mentionMatches = <<"Az", "alice">>

(***************************************************************************)
(* C22.  A failed message fetch and a failed presence fetch leave the       *)
(* window, the seen-ID set, the presence snapshot and the composition       *)
(* buffer as they were.                                                     *)
(***************************************************************************)
C22_FailureKeepsState ==
    [][(HallMessagesErr \/ HallPresenceErr)
           => UNCHANGED <<messages, seenIDs, presenceLogins, presenceCount, input>>]_vars

\* a fetch has failed over a window, a snapshot and a buffer that hold something
C22_Witness ==
    /\ step = "other"
    /\ err = "fetch failed"
    /\ Len(messages) > 0
    /\ seenIDs # {}
    /\ ~presenceLogins.isNil /\ Len(presenceLogins.elems) > 0
    /\ input = "a"

(***************************************************************************)
(* Vocabulary of the connection states.  m.err is assigned by the          *)
(* hallMessagesMsg handler alone: set when a fetch fails, cleared when one  *)
(* succeeds; m.connected is set by the first success and never reset.       *)
(***************************************************************************)
Shown == MessageArea(messages, err, myLogin, connected)

NoFetchFinished == ~connected /\ err = ""

LatestFetchFailed == err # ""

LatestFetchSucceeded == connected /\ err = ""

(***************************************************************************)
(* C23.  While the window is empty the view shows "connecting" exactly      *)
(* when no fetch has finished, "could not connect" exactly when the latest  *)
(* fetch failed and "no messages yet" exactly when the latest fetch         *)
(* succeeded; over a window that is not empty it shows none of the three.   *)
(***************************************************************************)
C23_BannerMatchesConnection ==
    /\ Len(messages) = 0 =>
          /\ Shown = "connecting..." <=> NoFetchFinished
          /\ Shown = "could not connect" <=> LatestFetchFailed
          /\ Shown = "no messages yet" <=> LatestFetchSucceeded
    /\ Len(messages) > 0 => Shown = "messages"

\* what the code does keep: the error banner is exact, and the other two
\* are exact as long as the local identity is unknown and the window empty
C23_BannerWhileAnonymous ==
    /\ Shown = "could not connect" <=> (Len(messages) = 0 /\ LatestFetchFailed)
    /\ (Len(messages) = 0 /\ myLogin = "") =>
          /\ Shown = "connecting..." <=> NoFetchFinished
          /\ Shown = "no messages yet" <=> LatestFetchSucceeded

(***************************************************************************)
(* Vocabulary of the message log.                                          *)
(***************************************************************************)
Rendered == renderMessages(messages, scroll, viewportHeight)

Total == Len(AllLines(messages))

Max(a, b) == IF a > b THEN a ELSE b

Min(a, b) == IF a < b THEN a ELSE b

\* the offset the renderer uses: the stored one, held within 0 .. max(0, total - viewport)
ClampedScroll == Max(0, Min(scroll, Max(0, Total - viewportHeight)))

\* the lines of the window that end at total - offset, at most a viewport of them
VisibleSlice ==
    SubSeq(AllLines(messages), Max(0, Total - ClampedScroll - viewportHeight) + 1,
           Total - ClampedScroll)

\* exactly a viewport of lines: blank ones first, then the slice, the newest
\* line last when the offset is zero
ViewportFilled ==
    /\ Len(Rendered) = viewportHeight
    /\ Rendered = Blanks(viewportHeight - Len(VisibleSlice)) \o VisibleSlice
    /\ Len(VisibleSlice) = Min(Total, viewportHeight)
    /\ scroll = 0 => Rendered[viewportHeight] = AllLines(messages)[Total]

(***************************************************************************)
(* C27.  For every window, scroll offset and viewport height the renderer  *)
(* emits exactly viewportHeight lines: the slice that ends at total minus   *)
(* the clamped offset, the newest line last at offset zero, and blank       *)
(* lines at the top only when fewer lines exist.                            *)
(***************************************************************************)
C27_ViewportFilled == ViewportFilled

\* amended: the same for every window that is not empty
C27_ViewportFilledUnlessEmpty == Len(messages) > 0 => ViewportFilled

\* the user has scrolled up over more lines than the viewport holds
C27_Witness ==
    /\ Len(messages) > 0
    /\ Total > viewportHeight
    /\ scroll > 0 /\ scroll < Total - viewportHeight
    /\ \E i \in 1..Total : AllLines(messages)[i].kind = "reactions"

\* fewer lines than the viewport: the deficit is blank lines at the top
C27_WitnessPadded ==
    /\ Len(messages) > 0
    /\ Total < viewportHeight
    /\ Rendered[1] = Blank

(***************************************************************************)
(* C28.  A reactions result replaces the summary of exactly the entries     *)
(* whose ID it names and leaves every other entry alone; handling it a      *)
(* second time changes nothing more; a failed result changes nothing.       *)
(***************************************************************************)
MergedByID(reactions) ==
    /\ Len(messages') = Len(messages)
    /\ \A i \in DOMAIN messages :
          messages'[i] = IF messages[i].ID \in DOMAIN reactions
                         THEN [messages[i] EXCEPT !.Reactions = reactions[messages[i].ID]]
                         ELSE messages[i]
    /\ ApplyReactions(messages', reactions) = messages'
    /\ UNCHANGED <<seenIDs, presenceLogins, presenceCount, input>>

C28_ReactionsMergedByID ==
    [][/\ \A reactions \in ReactionResults : HallReactionsOk(reactions) => MergedByID(reactions)
       /\ HallReactionsErr => UNCHANGED hallVars]_vars

\* a result has given one entry its summary and left the other without
C28_Witness ==
    /\ step = "reactions"
    /\ Len(messages) = 2
    /\ messages[1].Reactions = Sparkle
    /\ messages[2].Reactions = <<>>

(***************************************************************************)
(* Vocabulary of the layout.                                               *)
(***************************************************************************)
\* the row of the last line of the input: the last line of the view, or the
\* one above the status line
InputRow == Len(View) - (IF status # "" THEN 1 ELSE 0)

(***************************************************************************)
(* C24.  In every reachable state and for every height the view has         *)
(* exactly the allotted height in lines and its input row is the last       *)
(* content (the status line apart), never below the allotted height.        *)
(***************************************************************************)
C24_ViewHasAllottedHeight ==
    /\ Len(View) = height
    /\ View[InputRow].kind = "input"
    /\ InputRow <= height

\* what the code does keep: a hall of at least chrome + 2 lines is filled exactly
C24_FitsWhenTallEnough ==
    height >= chrome + 2 =>
        /\ Len(View) = height
        /\ View[InputRow].kind = "input"
        /\ InputRow <= height

\* the popup of five candidates has pushed the input row below a hall of MaxHeight lines
C24_PopupOverflows ==
    /\ height = MaxHeight
    /\ mentionActive /\ Len(mentionMatches) > 5
    /\ InputRow > height


(***************************************************************************)
(* C21.  In every reachable state at most one poll cycle is outstanding:   *)
(* one pending tick timer or one message fetch under way, never two,       *)
(* whatever the order of ticks, fetch results and send results and however *)
(* often the shell initialises the hall again.                             *)
(***************************************************************************)
C21_OnePollCycle == pending.fetch + pending.tick <= 1

\* the second cycle started by showing the hall again
C21_CycleFromReinit == step = "shortcut" /\ pending.tick = 1 /\ pending.fetch = 1

\* the second cycle started by the result of a send
C21_CycleFromSend == step = "send" /\ pending.fetch + pending.tick = 2

(***************************************************************************)
(* Vocabulary of the shell's key handling.                                 *)
(***************************************************************************)
\* the hall is shown and its composer has the focus
ComposerFocused == view = "viewHall" /\ inputFocused

\* a key handled while the composer is focused is handled by the hall
KeyReachesHall == \A msg \in ShellKeys : (ComposerFocused /\ AppKey(msg)) => HallKey(msg)

\* a key handled while the composer is focused leaves the view, the help
\* overlay and the program as they are
NoShortcut ==
    (ComposerFocused /\ \E msg \in ShellKeys : AppKey(msg))
        => UNCHANGED <<view, helpOpen, quitting>>

(***************************************************************************)
(* C25.  While the hall composer is focused no key triggers a shortcut of  *)
(* the shell (quit, another view, the Create view): every key is handed to *)
(* the hall's key handler, and isEditing is true exactly when the hall's   *)
(* input is focused.                                                       *)
(***************************************************************************)
C25_ComposerReceivesEveryKey ==
    /\ [](view = "viewHall" => (isEditing <=> inputFocused))
    /\ [][KeyReachesHall /\ NoShortcut]_vars

\* the part that holds: no shortcut of the shell acts while the composer is focused
C25_ShortcutsSuppressed ==
    /\ [](view = "viewHall" => (isEditing <=> inputFocused))
    /\ [][NoShortcut]_vars

\* the peek overlay opened over the focused composer
C25_PeekOverComposer == ComposerFocused /\ peekOpen

(***************************************************************************)
(* Vocabulary of the selection cursor.                                     *)
(***************************************************************************)
CursorWithin(cursor, matches) == 0 <= cursor /\ cursor < Len(matches)

\* Up and Down move the cursor by one and stop at the first and the last candidate
Clamps(cursor, matches, cursorAfter) ==
    /\ KeyMsg(Named("KeyUp")) => cursorAfter = (IF cursor > 0 THEN cursor - 1 ELSE cursor)
    /\ KeyMsg(Named("KeyDown"))
           => cursorAfter = (IF cursor < Len(matches) - 1 THEN cursor + 1 ELSE cursor)

NoWraparound ==
    /\ InMention => Clamps(mentionCursor, mentionMatches, mentionCursor')
    /\ InProject => Clamps(projectCursor, projectMatches, projectCursor')

(***************************************************************************)
(* C31.  While a sub-mode is active its cursor is at least 0 and below the *)
(* number of candidates: Up at the first and Down at the last candidate    *)
(* leave it where it is, and a re-filter leaves it in bounds.              *)
(***************************************************************************)
C31_CursorWithinCandidates ==
    /\ [](mentionActive => CursorWithin(mentionCursor, mentionMatches))
    /\ [](projectActive => CursorWithin(projectCursor, projectMatches))
    /\ [][NoWraparound]_vars

\* what the code does keep: the cursor is in bounds whenever there is a
\* candidate, and 0 in the mention sub-mode that has none
C31_CursorWithinUnlessEmpty ==
    /\ [](mentionActive => (CursorWithin(mentionCursor, mentionMatches)
                               \/ (mentionMatches = <<>> /\ mentionCursor = 0)))
    /\ [](projectActive => CursorWithin(projectCursor, projectMatches))
    /\ [][NoWraparound]_vars

\* Down has moved the cursor to the last of two candidates
C31_CursorAtLast ==
    /\ step = "key" /\ mentionActive
    /\ Len(mentionMatches) = 2 /\ mentionCursor = 1

(***************************************************************************)
(* C32.  In Normal mode "@" opens the mention sub-mode exactly when a      *)
(* login is known and "#" opens the project sub-mode exactly when the user *)
(* has a project; the sigil is appended to the buffer either way.          *)
(***************************************************************************)
HasRoom == RuneCountInString(input) < maxInputLen

Ignored == input' = input /\ InNormal'

SigilOpens(atCap) ==
    /\ (inputFocused /\ InNormal /\ KeyMsg(Runes("@")))
           => IF HasRoom \/ ~atCap
              THEN /\ input' = input \o "@"
                   /\ mentionActive' = (KnownNow # <<>>)
                   /\ ~projectActive'
              ELSE Ignored
    /\ (inputFocused /\ InNormal /\ KeyMsg(Runes("#")))
           => IF HasRoom \/ ~atCap
              THEN /\ input' = input \o "#"
                   /\ projectActive' = (myProjects # <<>>)
                   /\ ~mentionActive'
              ELSE Ignored

C32_SigilOpensSubMode == [][SigilOpens(FALSE)]_vars

\* amended: while the buffer has room; at the cap the key is ignored
C32_SigilOpensWhileRoom == [][SigilOpens(TRUE)]_vars

\* "#" has opened the project sub-mode behind a typed rune
C32_Witness ==
    /\ step = "key" /\ projectActive
    /\ input = "a#" /\ projectQuery = "" /\ Len(projectMatches) = 2

(***************************************************************************)
(* C36.  In every reachable state of a sub-mode the candidate list is not  *)
(* empty, also after a Backspace that shortens the query and after the     *)
(* known logins or the projects changed while the sub-mode was open.       *)
(***************************************************************************)
C36_CandidatesNeverEmpty ==
    /\ mentionActive => mentionMatches # <<>>
    /\ projectActive => projectMatches # <<>>

\* what the code does keep: only Backspace on a non-empty query in the
\* mention sub-mode takes a sub-mode from some candidate to none
C36_OnlyMentionBackspaceEmpties ==
    [][(C36_CandidatesNeverEmpty /\ ~C36_CandidatesNeverEmpty')
           => (/\ InMention /\ mentionQuery # "" /\ KeyMsg(Named("KeyBackspace"))
               /\ (projectActive' => projectMatches' # <<>>))]_vars

\* the pool of logins was replaced under the open mention sub-mode, whose
\* candidates are the ones found when the key was handled
C36_StaleCandidates ==
    /\ mentionActive /\ mentionMatches # <<>>
    /\ KnownNow = <<>>

(***************************************************************************)
(* C39.  The mention sub-mode and the project sub-mode are never active    *)
(* together, and neither is active while the composer is not focused.      *)
(***************************************************************************)
C39_OneSubModeWhileFocused ==
    /\ ~(mentionActive /\ projectActive)
    /\ ~inputFocused => InNormal

\* the project sub-mode opened after the mention sub-mode was cancelled
C39_Witness ==
    /\ inputFocused /\ projectActive /\ ~mentionActive
    /\ input = "@#"

\* the composer was left after a sub-mode had been used
C39_WitnessUnfocused ==
    /\ ~inputFocused /\ InNormal
    /\ input = "@"

(***************************************************************************)
(* C40.  In the mention sub-mode the selected candidate is one of the rows *)
(* of the popup: the cursor is below the number of rows shown, at most 5.  *)
(***************************************************************************)
C40_SelectedIsShown == mentionActive => SelectedRows # {}

\* what the code does keep: the selected candidate is shown while the list
\* has at most five candidates and at least one
C40_ShownUpToFive ==
    (mentionActive /\ Len(mentionMatches) \in 1..5) => SelectedRows # {}

\* the cursor on the sixth candidate
C40_CursorBelowPopup ==
    /\ mentionActive /\ Len(mentionMatches) = 6 /\ mentionCursor = 5

(***************************************************************************)
(* Vocabulary of the hard-wrap loop.                                       *)
(***************************************************************************)
\* an iteration of the inner loop takes at least one rune off the line
SliceConsumes ==
    (wrapPc = "runes" /\ Len(wrapRunes) > 0) => Len(wrapRunes') < Len(wrapRunes)

\* hardWrap has returned, and what it returned is what it was given with
\* line breaks added
Returned == wrapPc = "done" /\ Concat(Split(wrapped)) = Concat(Split(wrapLine))

\* the lines of the returned text, each at most width cells wide; a lone
\* rune wider than width is let through when wide is set
LinesFit(wide) ==
    (wrapPc = "done" /\ wrapWidth >= 1) =>
        \A i \in 1..Len(Split(wrapped)) :
            \/ Width(Split(wrapped)[i]) <= wrapWidth
            \/ wide /\ Len(Split(wrapped)[i]) = 1

(***************************************************************************)
(* C33.  hardWrap terminates for every text and every width, widths below  *)
(* 1 included: each iteration of the cutting loop consumes at least one    *)
(* rune, and every line of the result is at most width cells wide when     *)
(* width is at least 1.                                                    *)
(***************************************************************************)
C33_WrapTerminates ==
    /\ <>Returned
    /\ [][SliceConsumes]_vars
    /\ []LinesFit(FALSE)

\* amended: a line of the result may be wider than width when it is a
\* single rune
C33_WrapTerminatesRuneWide ==
    /\ <>Returned
    /\ [][SliceConsumes]_vars
    /\ []LinesFit(TRUE)

\* the loop returns what the function hardWrap is defined to return
C33_LoopIsHardWrap == wrapPc = "done" => wrapped = hardWrap(wrapLine, wrapWidth)

\* a wide rune between two narrow ones has been cut out at width 1
C33_Witness ==
    /\ wrapPc = "done"
    /\ wrapLine = "aWa" /\ wrapWidth = 1
    /\ wrapped = "a\nW\na"

\* the call returned at once for a width below 1
C33_WitnessNoWidth ==
    /\ wrapPc = "done" /\ wrapWidth = -1
    /\ wrapLine = "aa\na" /\ wrapped = wrapLine

(***************************************************************************)
(* Vocabulary of the animation.                                            *)
(***************************************************************************)
\* the entries of a window that carry the ID
EntriesOf(ms, id) == {i \in DOMAIN ms : ms[i].ID = id}

FrameOf(ms, id) == ms[CHOOSE i \in EntriesOf(ms, id) : TRUE].animFrame

IsRich(e) == e.Kind # "message" /\ e.Kind # ""

AnimIDs == {UUIDString(i) : i \in MsgIDs}

\* an entry that enters the window starts at 1 when its kind is rich, at 0 otherwise
SeededByKind ==
    \A i \in DOMAIN messages' :
        EntriesOf(messages, messages'[i].ID) = {}
            => messages'[i].animFrame = (IF IsRich(messages'[i]) THEN 1 ELSE 0)

\* an animation tick advances every running counter by one, from the last
\* frame to 0, and leaves a counter at 0; no other step changes a counter
TickAdvances ==
    \A id \in AnimIDs :
        (EntriesOf(messages, id) # {} /\ EntriesOf(messages', id) # {}) =>
            LET f == FrameOf(messages, id)
            IN  FrameOf(messages', id) =
                   IF step' # "anim" \/ f = 0 THEN f
                   ELSE IF f = hallAnimFrames THEN 0 ELSE f + 1

\* a running counter is back at 0, or its entry evicted, after finitely many steps
Settles(id) ==
    (EntriesOf(messages, id) # {} /\ FrameOf(messages, id) > 0)
        ~> (EntriesOf(messages, id) = {} \/ FrameOf(messages, id) = 0)

(***************************************************************************)
(* C34.  Every entry's animation counter is within 0..20: an entry of a    *)
(* rich kind enters the window with 1 and a plain one with 0, each         *)
(* animation tick advances a non-zero counter by one, and under repeated   *)
(* ticks every counter returns to 0 and stays there.                       *)
(***************************************************************************)
C34_AnimationSettles ==
    /\ [](\A i \in DOMAIN messages : messages[i].animFrame \in 0..hallAnimFrames)
    /\ [][SeededByKind /\ TickAdvances]_vars
    /\ \A id \in AnimIDs : Settles(id)

\* the ship card shows its last frame
C34_Witness ==
    /\ step = "anim"
    /\ \E i \in DOMAIN messages : IsRich(messages[i]) /\ messages[i].animFrame = hallAnimFrames

(***************************************************************************)
(* Every handler that writes m.messages, side by side: merges, presence    *)
(* snapshots, the identity, reaction summaries and animation ticks.        *)
(***************************************************************************)
FrameSlices == {Slice(<<>>), Slice(<<"bob">>)}

NextFrame ==
    \/ HallMessagesMerge(PollBatches)
          /\ UNCHANGED <<composerVars, wrapVars, pollVars, layoutVars, shellVars>>
    \/ \E logins \in FrameSlices : HallPresenceOk(logins, Len(logins.elems))
    \/ MeLoadedOk
    \/ \E reactions \in LogReactions : HallReactionsOk(reactions)
    \/ HallAnimTick

SpecFrame == Init /\ [][NextFrame]_vars

(***************************************************************************)
(* Vocabulary of the entry-frame claims.                                   *)
(***************************************************************************)
EntryOf(ms, id) == ms[CHOOSE i \in EntriesOf(ms, id) : TRUE]

\* the fields of an entry other than the animation counter and the summary
Identity(e) == [ID |-> e.ID, SenderLogin |-> e.SenderLogin, Body |-> e.Body,
                Kind |-> e.Kind, CreatedAt |-> e.CreatedAt, IsSystem |-> e.IsSystem]

HeldAcross(id) == EntriesOf(messages, id) # {} /\ EntriesOf(messages', id) # {}

\* a system entry is the literal the presence handler appended
SystemEntriesKept ==
    \A i \in DOMAIN messages' :
        messages'[i].IsSystem => messages'[i] = SystemMessage(messages'[i].Body)

\* C35 as stated: between insertion and eviction an entry keeps its ID,
\* sender, body, kind, timestamp, is-system flag and is-mine flag; only the
\* animation counter and the reaction summary are written in place
C35_EntryFieldsFrozen ==
    [][/\ \A id \in AnimIDs :
            HeldAcross(id) =>
                /\ Identity(EntryOf(messages', id)) = Identity(EntryOf(messages, id))
                /\ EntryOf(messages', id).IsSelf = EntryOf(messages, id).IsSelf
       /\ SystemEntriesKept]_vars

\* C35 amended: the same, except that the is-mine flag is also written in
\* place, by the identity handler alone, which sets it to sender = login
C35_EntryFieldsFrozenButIsMine ==
    [][/\ \A id \in AnimIDs :
            HeldAcross(id) =>
                /\ Identity(EntryOf(messages', id)) = Identity(EntryOf(messages, id))
                /\ (EntryOf(messages', id).IsSelf # EntryOf(messages, id).IsSelf =>
                        /\ myLogin' # myLogin
                        /\ EntryOf(messages', id).IsSelf
                               = (EntryOf(messages', id).SenderLogin = myLogin'))
                /\ (EntryOf(messages', id).animFrame # EntryOf(messages, id).animFrame =>
                        step' = "anim")
                /\ (EntryOf(messages', id).Reactions # EntryOf(messages, id).Reactions =>
                        step' = "reactions")
       /\ SystemEntriesKept]_vars

\* the identity has just arrived and flipped the flag of a held entry that
\* already carries a reaction summary and a running animation
C35_Witness ==
    /\ myLogin = Me
    /\ step = "other"
    /\ \E i \in DOMAIN messages :
          /\ messages[i].IsSelf
          /\ messages[i].Reactions # <<>>
    /\ \E i \in DOMAIN messages : messages[i].animFrame > 1
    /\ \E i \in DOMAIN messages : messages[i].IsSystem

(***************************************************************************)
(* C38: while the local identity is known, the is-mine flag of every       *)
(* non-system entry of the window equals (sender login = local login),     *)
(* whether the identity arrived before or after the entry was fetched.     *)
(***************************************************************************)
C38_IsMineMatchesIdentity ==
    myLogin # "" =>
        \A i \in DOMAIN messages :
            ~messages[i].IsSystem =>
                messages[i].IsSelf = (messages[i].SenderLogin = myLogin)

\* no fetched entry is flagged while the identity is unknown
C38_NoneMineBeforeIdentity ==
    myLogin = "" => \A i \in DOMAIN messages : ~messages[i].IsSelf

\* the identity arrives over a window that holds a message of the local
\* user and one of somebody else
C38_Witness ==
    /\ myLogin = Me
    /\ step = "other"
    /\ \E i \in DOMAIN messages : ~messages[i].IsSystem /\ messages[i].IsSelf
    /\ \E i \in DOMAIN messages : ~messages[i].IsSystem /\ ~messages[i].IsSelf

\* a message of the local user fetched after the identity arrived
C38_WitnessFetchedLater ==
    /\ myLogin = Me
    /\ step = "messages"
    /\ \E i \in DOMAIN messages : messages[i].IsSelf /\ messages[i].ID \in inserted

(***************************************************************************)
(* One sync tick.  loadMessages returns tea.Batch(fetchMsgs,               *)
(* fetchPresence): the two fetches run concurrently and the runtime        *)
(* delivers their results in either order.  sync holds the two results of  *)
(* a tick whose fetches both succeed, which of them are still to be        *)
(* handled, and the window as it was when the first of them arrived.       *)
(***************************************************************************)
SyncSlices == {Slice(<<>>), Slice(<<"bob">>)}

\* hallTickMsg: return m, m.loadMessages()
SyncTick(page, logins) ==
    /\ sync.left = {}
    /\ sync' = [left |-> {"messages", "presence"}, first |-> "none",
                page |-> page, logins |-> logins,
                from |-> [messages |-> messages, seenIDs |-> seenIDs,
                          presenceLogins |-> presenceLogins]]
    /\ step' = "tick"
    /\ redelivered' = FALSE
    /\ UNCHANGED <<hallVars, inserted, evicted, lastSnapshot>>
    /\ UNCHANGED <<pending, issued, failures>>
    /\ UNCHANGED <<composerVars, wrapVars, layoutVars, shellVars>>

Handled(result) ==
    sync' = [sync EXCEPT !.left = @ \ {result},
                         !.first = IF @ = "none" THEN result ELSE @]

\* the hallMessagesMsg of the tick is delivered
SyncMessages ==
    /\ "messages" \in sync.left
    /\ HallMessagesMerge({sync.page})
    /\ Handled("messages")
    /\ UNCHANGED <<pending, issued, failures>>
    /\ UNCHANGED <<composerVars, wrapVars, layoutVars, shellVars>>

\* the hallPresenceMsg of the tick is delivered
SyncPresence ==
    /\ "presence" \in sync.left
    /\ HallPresenceMerge(sync.logins, Len(sync.logins.elems))
    /\ Handled("presence")
    /\ UNCHANGED <<pending, issued, failures>>
    /\ UNCHANGED <<composerVars, wrapVars, layoutVars, shellVars>>

NextSync ==
    \/ \E page \in PollBatches, logins \in SyncSlices : SyncTick(page, logins)
    \/ SyncMessages
    \/ SyncPresence

SpecSync == Init /\ [][NextSync]_vars

(***************************************************************************)
(* Vocabulary of the sync claim: the windows each order of handling the    *)
(* two results can leave, computed from the window before them.            *)
(***************************************************************************)
\* the windows the message handler can leave: merge loop, sort, trim
MergeWindows(ms, seen, batch, me) ==
    {TrimWindow(sorted) : sorted \in SortSlice(MergeNew(ms, seen, batch, me).messages)}

MessagesThenPresence(s) ==
    {PresenceAppend(w, s.from.presenceLogins, s.logins, myLogin) :
        w \in MergeWindows(s.from.messages, s.from.seenIDs, s.page, myLogin)}

PresenceThenMessages(s) ==
    MergeWindows(PresenceAppend(s.from.messages, s.from.presenceLogins, s.logins, myLogin),
                 s.from.seenIDs, s.page, myLogin)

BothHandled == sync.first # "none" /\ sync.left = {}

SameOrder(s) ==
    IF s.first = "messages" THEN MessagesThenPresence(s) ELSE PresenceThenMessages(s)

OtherOrder(s) ==
    IF s.first = "messages" THEN PresenceThenMessages(s) ELSE MessagesThenPresence(s)

\* the entries of a window, whatever their order
Contents(w) == [e \in Range(w) |-> Cardinality({i \in DOMAIN w : w[i] = e})]

(***************************************************************************)
(* C37: when both results of one sync tick have been handled, the window   *)
(* is one that handling them in the other order leaves as well: contents   *)
(* and order do not depend on which result came first.                     *)
(***************************************************************************)
C37_SyncOrderIrrelevant == BothHandled => messages \in OtherOrder(sync)

\* the operators above compute what the handlers leave
C37_OrdersAsHandled == BothHandled => messages \in SameOrder(sync)

\* the two orders agree when the presence result appends nothing
C37_AgreeWithoutDiff ==
    (BothHandled /\ PresenceAppend(<<>>, sync.from.presenceLogins, sync.logins, myLogin) = <<>>)
        => MessagesThenPresence(sync) = PresenceThenMessages(sync)

\* even the contents differ: presence last leaves one entry more than the
\* trim of the other order keeps
C37_ContentsDiffer ==
    /\ BothHandled
    /\ \A w \in OtherOrder(sync) : Contents(w) # Contents(messages)

\* only the order differs
C37_OrderDiffers ==
    /\ BothHandled
    /\ messages \notin OtherOrder(sync)
    /\ \E w \in OtherOrder(sync) : Contents(w) = Contents(messages)

====
